---- MODULE Spec2Model ----
(***************************************************************************)
(* AURA Mind backend (src/server.js): the multi-provider response          *)
(* orchestrator (getAIResponse), the keyword command router                *)
(* (handleSpecialCommands), the per-user work timer map (activeTimers)     *)
(* and the HTTP handlers that drive them; and the browser client           *)
(* (src/unnamed/part_000): its camera flow, speech recognition, modes and  *)
(* countdown.                                                              *)
(*                                                                         *)
(* Text is modelled by TLA+ strings; toLowerCase, toUpperCase, includes    *)
(* and trim are computed character by character.  An asynchronous handler  *)
(* is one action per run-to-completion segment: it is cut at every await,  *)
(* and nowhere else.                                                       *)
(***************************************************************************)
EXTENDS Integers, Sequences, FiniteSets, TLC

VARIABLES API_KEYS, currentActive, activeTimers, now, reqs,
          AuraState, page, browser

serverVars == <<API_KEYS, currentActive, activeTimers, now, reqs>>

clientVars == <<AuraState, page, browser>>

vars == <<API_KEYS, currentActive, activeTimers, now, reqs, AuraState, page, browser>>

(***************************************************************************)
(* String primitives of the JavaScript runtime                             *)
(***************************************************************************)
LowerOfUpper ==
    ("A" :> "a") @@ ("B" :> "b") @@ ("C" :> "c") @@ ("D" :> "d") @@
    ("E" :> "e") @@ ("F" :> "f") @@ ("G" :> "g") @@ ("H" :> "h") @@
    ("I" :> "i") @@ ("J" :> "j") @@ ("K" :> "k") @@ ("L" :> "l") @@
    ("M" :> "m") @@ ("N" :> "n") @@ ("O" :> "o") @@ ("P" :> "p") @@
    ("Q" :> "q") @@ ("R" :> "r") @@ ("S" :> "s") @@ ("T" :> "t") @@
    ("U" :> "u") @@ ("V" :> "v") @@ ("W" :> "w") @@ ("X" :> "x") @@
    ("Y" :> "y") @@ ("Z" :> "z")

UpperOfLower ==
    ("a" :> "A") @@ ("b" :> "B") @@ ("c" :> "C") @@ ("d" :> "D") @@
    ("e" :> "E") @@ ("f" :> "F") @@ ("g" :> "G") @@ ("h" :> "H") @@
    ("i" :> "I") @@ ("j" :> "J") @@ ("k" :> "K") @@ ("l" :> "L") @@
    ("m" :> "M") @@ ("n" :> "N") @@ ("o" :> "O") @@ ("p" :> "P") @@
    ("q" :> "Q") @@ ("r" :> "R") @@ ("s" :> "S") @@ ("t" :> "T") @@
    ("u" :> "U") @@ ("v" :> "V") @@ ("w" :> "W") @@ ("x" :> "X") @@
    ("y" :> "Y") @@ ("z" :> "Z")

MapChar(table, c) == IF c \in DOMAIN table THEN table[c] ELSE c

RECURSIVE MapString(_, _)
MapString(table, s) ==
    IF Len(s) = 0 THEN ""
    ELSE MapChar(table, SubSeq(s, 1, 1)) \o MapString(table, SubSeq(s, 2, Len(s)))

toLowerCase(s) == MapString(LowerOfUpper, s)

toUpperCase(s) == MapString(UpperOfLower, s)

\* String.prototype.includes: k occurs in s as a contiguous substring
includes(s, k) ==
    \E i \in 1..(Len(s) - Len(k) + 1) : SubSeq(s, i, i + Len(k) - 1) = k

WhiteSpace == {" ", "\n", "\t"}

RECURSIVE trimStart(_)
trimStart(s) ==
    IF Len(s) > 0 /\ SubSeq(s, 1, 1) \in WhiteSpace
    THEN trimStart(SubSeq(s, 2, Len(s)))
    ELSE s

RECURSIVE trimEnd(_)
trimEnd(s) ==
    IF Len(s) > 0 /\ SubSeq(s, Len(s), Len(s)) \in WhiteSpace
    THEN trimEnd(SubSeq(s, 1, Len(s) - 1))
    ELSE s

trim(s) == trimEnd(trimStart(s))

\* String.prototype.replace(pattern, ''): the first occurrence of the
\* pattern is removed, the string is returned as it is when there is none.
replaceFirst(s, pat) ==
    IF includes(s, pat)
    THEN LET i == CHOOSE j \in 1..(Len(s) - Len(pat) + 1) :
                      /\ SubSeq(s, j, j + Len(pat) - 1) = pat
                      /\ \A k \in 1..(j - 1) : SubSeq(s, k, k + Len(pat) - 1) # pat
         IN SubSeq(s, 1, i - 1) \o SubSeq(s, i + Len(pat), Len(s))
    ELSE s

(***************************************************************************)
(* Values: a JavaScript value that is either null or a string              *)
(***************************************************************************)
Null == [isNull |-> TRUE, text |-> ""]

Str(s) == [isNull |-> FALSE, text |-> s]

\* a test against null only, which lets '' through
TruthyNotNull(v) == ~v.isNull

\* JavaScript truthiness of a null-or-string value: null and '' are falsy
Truthy(v) == ~v.isNull /\ v.text # ""

(***************************************************************************)
(* Provider configuration and credentials                                  *)
(***************************************************************************)
primary == "groq"

backup == <<"openai", "huggingface", "gemini">>

\* the keys of AI_APIS.endpoints and of apiMethods
Providers == {"groq", "openai", "gemini", "huggingface"}

HF_PLACEHOLDER == "YOUR_HF_KEY_HERE"

EnvNames == {"GROQ_API_KEY", "OPENAI_API_KEY", "GEMINI_API_KEY", "HUGGINGFACE_TOKEN"}

\* the value of an environment variable: "" stands for unset (or empty)
EnvValues == {"", "sk-live"}

\* API_KEYS as built at start-up from process.env
MakeApiKeys(env) ==
    [n \in EnvNames |->
        IF env[n] # "" THEN env[n]
        ELSE IF n = "HUGGINGFACE_TOKEN" THEN HF_PLACEHOLDER ELSE ""]

\* API_KEYS[name]; a name that is no property of API_KEYS reads undefined,
\* which is falsy like ''
KeyLookup(name) == IF name \in DOMAIN API_KEYS THEN API_KEYS[name] ELSE ""

\* the credential test of getAIResponse
HasCredential(api) ==
    \/ KeyLookup(toUpperCase(api) \o "_API_KEY") # ""
    \/ KeyLookup(toUpperCase(api) \o "_TOKEN") # ""

\* the bearer token (or key) a provider call sends
CredentialSent(api) ==
    IF api = "huggingface" THEN API_KEYS["HUGGINGFACE_TOKEN"]
    ELSE API_KEYS[toUpperCase(api) \o "_API_KEY"]

\* GET /api/status: the providers reported as available
PlaceholderOf ==
    [groq |-> "YOUR_GROQ_KEY_HERE", openai |-> "YOUR_OPENAI_KEY_HERE",
     gemini |-> "YOUR_GEMINI_KEY_HERE", huggingface |-> HF_PLACEHOLDER]

availableAPIs ==
    {api \in Providers :
        CredentialSent(api) # "" /\ CredentialSent(api) # PlaceholderOf[api]}

(***************************************************************************)
(* One outbound provider call                                              *)
(***************************************************************************)
\* What the network hands back to a call: fetch rejects, a non-2xx status,
\* a body that does not have the expected shape, or a 2xx body whose text
\* field holds content.
FailureKinds == {"transport_error", "http_error", "bad_payload"}

\* the prompt callHuggingFaceAPI sends and strips from the generated text
HFPrompt(message) == "Human: " \o message \o "\nAURA:"

\* the text fields a provider may answer a message with
Contents(api, message) ==
    {"", "  ", " Re: " \o message \o "\n"}
      \cup (IF api = "huggingface" THEN {HFPrompt(message) \o " "} ELSE {})

Outcomes(api, message) ==
    [kind : FailureKinds, content : {""}]
      \cup [kind : {"ok"}, content : Contents(api, message)]
      \cup (IF api = "huggingface" THEN [kind : {"not_array"}, content : {""}] ELSE {})

\* callGroqAPI, callOpenAIAPI, callGeminiAPI: every failure is caught and
\* becomes null, a 2xx answer becomes the trimmed text
callChatAPI(message, outcome) ==
    IF outcome.kind = "ok" THEN Str(trim(outcome.content)) ELSE Null

callHuggingFaceAPI(message, outcome) ==
    IF outcome.kind = "ok"
    THEN Str(trim(replaceFirst(outcome.content, HFPrompt(message))))
    ELSE Null

\* apiMethods[api](message)
callAPI(api, message, outcome) ==
    IF api = "huggingface" THEN callHuggingFaceAPI(message, outcome)
    ELSE callChatAPI(message, outcome)

(***************************************************************************)
(* getFallbackResponse                                                     *)
(***************************************************************************)
\* the keyword table, in insertion order
fallbacks == <<
    [keyword |-> "hello",
     reply |-> "Hello! I am AURA, your AI study assistant. How can I help you today?"],
    [keyword |-> "hi",
     reply |-> "Hi there! Ready to boost your productivity and learning?"],
    [keyword |-> "machine learning",
     reply |-> "Machine learning is a branch of AI that enables computers to learn and make decisions from data without explicit programming."],
    [keyword |-> "programming",
     reply |-> "Programming is the art of creating instructions for computers using languages like Python, JavaScript, or Java."],
    [keyword |-> "study",
     reply |-> "Effective studying involves active recall, spaced repetition, and taking regular breaks. What subject are you working on?"],
    [keyword |-> "stress",
     reply |-> "I can help you manage stress through the 40-minute work sessions and safe mode activation."],
    [keyword |-> "weather",
     reply |-> "I cannot check weather, but I hope you have a productive day ahead!"],
    [keyword |-> "time",
     reply |-> "It's currently around <toLocaleTimeString>."],
    [keyword |-> "help",
     reply |-> "I can assist with studies, manage your work sessions, activate AI Clone mode, and provide stress management support."]
    >>

defaultReply ==
    "I understand what you're asking. How can I help you with your studies or productivity today?"

RECURSIVE scanFallbacks(_, _)
scanFallbacks(lowerMessage, i) ==
    IF i > Len(fallbacks) THEN defaultReply
    ELSE IF includes(lowerMessage, fallbacks[i].keyword) THEN fallbacks[i].reply
    ELSE scanFallbacks(lowerMessage, i + 1)

getFallbackResponse(message) == scanFallbacks(toLowerCase(message), 1)

(***************************************************************************)
(* generateVoiceResponse                                                   *)
(***************************************************************************)
voiceResponses ==
    [conversation |-> [prefix |-> "I understand what you're asking. ",
                       suffix |-> " Is there anything else you'd like to know?"],
     scan         |-> [prefix |-> "I've scanned the document. ",
                       suffix |-> " Would you like me to explain any specific part?"],
     timer        |-> [prefix |-> "Regarding your work session: ",
                       suffix |-> " Keep up the great work!"],
     stress       |-> [prefix |-> "I'm here to help with your wellbeing. ",
                       suffix |-> " Take your time and breathe deeply."]]

generateVoiceResponse(text, responseType) ==
    LET response == IF responseType \in DOMAIN voiceResponses
                    THEN voiceResponses[responseType]
                    ELSE voiceResponses.conversation
    IN response.prefix \o text \o response.suffix

(***************************************************************************)
(* Timer management: activeTimers is a Map from user identifier to timer   *)
(***************************************************************************)
\* 40 * 60 * 1000 milliseconds
WorkDuration == 40 * 60 * 1000

\* Map.prototype.set
\* one timer object shared by every user
MapSetShared(map, key, value) ==
    [k \in DOMAIN map \cup {key} |-> value]

MapSet(map, key, value) ==
    [k \in DOMAIN map \cup {key} |-> IF k = key THEN value ELSE map[k]]

\* the number without its leading zero
padStart2Unpadded(n) == ToString(n)

\* Number.prototype.toString().padStart(2, '0')
padStart2(n) == IF Len(ToString(n)) < 2 THEN "0" \o ToString(n) ELSE ToString(n)

Max(a, b) == IF a >= b THEN a ELSE b

\* Math.round of the non-negative quotient num / den
RoundDiv(num, den) == (2 * num + den) \div (2 * den)

\* the outcome of a handler: what it returns and the timer map it leaves
Out(result, timers) == [result |-> result, timers |-> timers]

\* the new session inherits the cycle count of the one it replaces
startWorkTimerKeepingCount(timers, t, userId) ==
    LET timerData == [startTime |-> t, duration |-> WorkDuration,
                      alarmCount |-> IF userId \in DOMAIN timers
                                     THEN timers[userId].alarmCount ELSE 0,
                      isActive |-> TRUE, mode |-> "work", sessionNumber |-> 1]
    IN Out([success |-> TRUE,
            message |-> "Starting 40-minute focused work session with AI monitoring",
            timer |-> "40:00",
            status |-> "timer_started",
            sessionNumber |-> 1],
           MapSet(timers, userId, timerData))

startWorkTimer(timers, t, userId) ==
    LET timerData == [startTime |-> t, duration |-> WorkDuration, alarmCount |-> 0,
                      isActive |-> TRUE, mode |-> "work", sessionNumber |-> 1]
    IN Out([success |-> TRUE,
            message |-> "Starting 40-minute focused work session with AI monitoring",
            timer |-> "40:00",
            status |-> "timer_started",
            sessionNumber |-> 1],
           MapSet(timers, userId, timerData))

\* the thresholds compared with >= in place of >
getMotivationalMessageAtLeast(minutesLeft) ==
    IF minutesLeft >= 30 THEN "Great start! You're in the flow zone."
    ELSE IF minutesLeft >= 20 THEN "Halfway there! Keep up the excellent focus."
    ELSE IF minutesLeft >= 10 THEN "Final stretch! You're doing amazing."
    ELSE "Almost done! Finish strong!"

getMotivationalMessage(minutesLeft) ==
    IF minutesLeft > 30 THEN "Great start! You're in the flow zone."
    ELSE IF minutesLeft > 20 THEN "Halfway there! Keep up the excellent focus."
    ELSE IF minutesLeft > 10 THEN "Final stretch! You're doing amazing."
    ELSE "Almost done! Finish strong!"

\* one poll counting every full duration that has elapsed
handleTimerCompleteCatchingUp(timers, t, userId) ==
    LET timer == timers[userId]
        alarmCount == timer.alarmCount + (t - timer.startTime) \div timer.duration
    IN IF alarmCount >= 2
       THEN Out([status |-> "ai_clone_activated",
                 message |-> "Outstanding! You've completed 80 minutes of focused work. AI Clone is now taking over your background tasks.",
                 alarmCount |-> alarmCount,
                 action |-> "clone_mode",
                 totalWorkTime |-> "80 minutes"],
                MapSet(timers, userId,
                       [timer EXCEPT !.alarmCount = alarmCount, !.isActive = FALSE]))
       ELSE Out([status |-> "session_complete",
                 message |-> "Excellent! Session " \o ToString(2 - 1)
                               \o " completed. Take a 5-minute break, then we'll start session 2.",
                 alarmCount |-> alarmCount,
                 nextSession |-> "ready_to_start",
                 sessionProgress |-> ToString(alarmCount) \o "/2 sessions completed"],
                MapSet(timers, userId,
                       [timer EXCEPT !.alarmCount = alarmCount,
                                     !.sessionNumber = 2, !.startTime = t]))

\* the completion of the first cycle without the restart of the countdown
handleTimerCompleteNoRestart(timers, t, userId) ==
    LET timer == timers[userId]
        alarmCount == timer.alarmCount + 1
    IN IF alarmCount >= 2
       THEN Out([status |-> "ai_clone_activated",
                 message |-> "Outstanding! You've completed 80 minutes of focused work. AI Clone is now taking over your background tasks.",
                 alarmCount |-> alarmCount,
                 action |-> "clone_mode",
                 totalWorkTime |-> "80 minutes"],
                MapSet(timers, userId,
                       [timer EXCEPT !.alarmCount = alarmCount, !.isActive = FALSE]))
       ELSE Out([status |-> "session_complete",
                 message |-> "Excellent! Session " \o ToString(2 - 1)
                               \o " completed. Take a 5-minute break, then we'll start session 2.",
                 alarmCount |-> alarmCount,
                 nextSession |-> "ready_to_start",
                 sessionProgress |-> ToString(alarmCount) \o "/2 sessions completed"],
                MapSet(timers, userId,
                       [timer EXCEPT !.alarmCount = alarmCount, !.sessionNumber = 2]))

handleTimerComplete(timers, t, userId) ==
    LET timer == timers[userId]
        alarmCount == timer.alarmCount + 1
    IN IF alarmCount >= 2
       THEN Out([status |-> "ai_clone_activated",
                 message |-> "Outstanding! You've completed 80 minutes of focused work. AI Clone is now taking over your background tasks.",
                 alarmCount |-> alarmCount,
                 action |-> "clone_mode",
                 totalWorkTime |-> "80 minutes"],
                MapSet(timers, userId,
                       [timer EXCEPT !.alarmCount = alarmCount, !.isActive = FALSE]))
       ELSE Out([status |-> "session_complete",
                 message |-> "Excellent! Session " \o ToString(2 - 1)
                               \o " completed. Take a 5-minute break, then we'll start session 2.",
                 alarmCount |-> alarmCount,
                 nextSession |-> "ready_to_start",
                 sessionProgress |-> ToString(alarmCount) \o "/2 sessions completed"],
                MapSet(timers, userId,
                       [timer EXCEPT !.alarmCount = alarmCount,
                                     !.sessionNumber = 2, !.startTime = t]))

\* the poll that does not test isActive
checkTimerStatusOfInactive(timers, t, userId) ==
    IF userId \notin DOMAIN timers
    THEN Out([status |-> "no_active_timer",
              message |-> "No active work session. Start one to begin productive studying!"],
             timers)
    ELSE LET timer == timers[userId]
             elapsed == t - timer.startTime
             remaining == Max(0, timer.duration - elapsed)
             minutes == remaining \div 60000
             seconds == (remaining % 60000) \div 1000
         IN IF remaining <= 0
            THEN handleTimerComplete(timers, t, userId)
            ELSE Out([status |-> "active",
                      timeLeft |-> padStart2(minutes) \o ":" \o padStart2(seconds),
                      sessionNumber |-> timer.sessionNumber,
                      progress |-> RoundDiv((timer.duration - remaining) * 100, timer.duration),
                      message |-> "Work session " \o ToString(timer.sessionNumber)
                                    \o " in progress. " \o ToString(minutes) \o " minutes "
                                    \o ToString(seconds) \o " seconds remaining.",
                      motivationalMessage |-> getMotivationalMessage(minutes)],
                     timers)

checkTimerStatus(timers, t, userId) ==
    IF userId \notin DOMAIN timers \/ ~timers[userId].isActive
    THEN Out([status |-> "no_active_timer",
              message |-> "No active work session. Start one to begin productive studying!"],
             timers)
    ELSE LET timer == timers[userId]
             elapsed == t - timer.startTime
             remaining == Max(0, timer.duration - elapsed)
             minutes == remaining \div 60000
             seconds == (remaining % 60000) \div 1000
         IN IF remaining <= 0
            THEN handleTimerComplete(timers, t, userId)
            ELSE Out([status |-> "active",
                      timeLeft |-> padStart2(minutes) \o ":" \o padStart2(seconds),
                      sessionNumber |-> timer.sessionNumber,
                      progress |-> RoundDiv((timer.duration - remaining) * 100, timer.duration),
                      message |-> "Work session " \o ToString(timer.sessionNumber)
                                    \o " in progress. " \o ToString(minutes) \o " minutes "
                                    \o ToString(seconds) \o " seconds remaining.",
                      motivationalMessage |-> getMotivationalMessage(minutes)],
                     timers)

\* Math.floor(Math.random() * 30): the draws the model explores
RandomDraws == {0, 29}

\* safe mode answering with a status of its own making
activateSafeModeOn(draw) ==
    [status |-> "safe_mode_on",
     message |-> "Safe Mode activated. Detecting elevated stress levels - let's take care of your wellbeing.",
     stressLevel |-> draw + 70]

activateSafeMode(draw) ==
    [status |-> "safe_mode_active",
     message |-> "Safe Mode activated. Detecting elevated stress levels - let's take care of your wellbeing.",
     stressLevel |-> draw + 70]

activateAIClone(mode) ==
    LET cloneCapabilities ==
          [standard |-> [status |-> "clone_activated",
                         message |-> "AI Clone activated and working autonomously in background.",
                         workingTime |-> "15-20 minutes"],
           advanced |-> [status |-> "advanced_clone_active",
                         message |-> "Advanced AI Clone mode engaged - handling complex cognitive tasks.",
                         workingTime |-> "25-30 minutes"]]
    IN IF mode \in DOMAIN cloneCapabilities THEN cloneCapabilities[mode]
       ELSE cloneCapabilities.standard

(***************************************************************************)
(* handleSpecialCommands                                                   *)
(***************************************************************************)
\* the trigger keywords of the six tests, in the order the tests are made
Triggers == <<
    {"start work", "40 minute", "begin session"},
    {"timer status", "time left", "how much time"},
    {"stressed", "anxious", "overwhelmed", "safe mode"},
    {"clone", "background tasks", "auto work"},
    {"scan", "read document", "analyze"},
    {"multi mode"} >>

\* a test for equality with a trigger instead of containment
HitsWholeCommand(lowerCommand, i) == lowerCommand \in Triggers[i]

Hits(lowerCommand, i) == \E k \in Triggers[i] : includes(lowerCommand, k)

\* result.voiceMessage = generateVoiceResponse(result.message, type)
WithVoice(result, type) ==
    [f \in DOMAIN result \cup {"voiceMessage"} |->
        IF f = "voiceMessage" THEN generateVoiceResponse(result.message, type)
        ELSE result[f]]

NoMatch == [status |-> "<null>"]

\* what a matching test of handleSpecialCommands returns
Handled(out, type) ==
    [matched |-> TRUE, result |-> WithVoice(out.result, type), timers |-> out.timers]

\* a safe mode that also suspends every running session
safeModeCommandPausing(timers, draw) ==
    Handled(Out(activateSafeMode(draw),
                [u \in DOMAIN timers |-> [timers[u] EXCEPT !.isActive = FALSE]]),
            "stress")

\* the stress and safe-mode branch
safeModeCommand(timers, draw) == Handled(Out(activateSafeMode(draw), timers), "stress")

\* the clone branch
cloneCommand(timers, lowerCommand) ==
    Handled(Out(activateAIClone(IF includes(lowerCommand, "advanced")
                                THEN "advanced" ELSE "standard"), timers),
            "conversation")

\* the scan branch
scanCommand(timers) ==
    [matched |-> TRUE,
     result |-> [status |-> "scan_mode_ready",
                 message |-> "I am ready to scan and analyze documents. Please show me what you would like me to read.",
                 voiceMessage |-> "I am ready to scan documents for you. Please show the document to your camera and I will read and analyze it for you.",
                 action |-> "prepare_camera_scan"],
     timers |-> timers]

\* the mode-switch branch
multiModeCommand(timers) ==
    Handled(Out([status |-> "multi_mode_active",
                 message |-> "Multi Mode activated! All AURA systems online: Voice AI, Timer, Stress Monitor, Document Scanner, and AI Clone.",
                 capabilities |-> "Full AURA experience with voice commands and document scanning."],
                timers),
            "conversation")

\* the stress test made before the timer-status test
handleSpecialCommandsStressFirst(timers, t, command, userId, draw) ==
    LET lowerCommand == toLowerCase(command)
    IN IF Hits(lowerCommand, 1)
       THEN Handled(startWorkTimer(timers, t, userId), "timer")
       ELSE IF Hits(lowerCommand, 3) THEN safeModeCommand(timers, draw)
       ELSE IF Hits(lowerCommand, 2)
       THEN Handled(checkTimerStatus(timers, t, userId), "timer")
       ELSE IF Hits(lowerCommand, 4) THEN cloneCommand(timers, lowerCommand)
       ELSE IF Hits(lowerCommand, 5) THEN scanCommand(timers)
       ELSE IF Hits(lowerCommand, 6) THEN multiModeCommand(timers)
       ELSE [matched |-> FALSE, result |-> NoMatch, timers |-> timers]

\* handleSpecialCommands(command, userId) run on timer map `timers` at
\* instant t; matched = FALSE stands for the null it returns
handleSpecialCommands(timers, t, command, userId, draw) ==
    LET lowerCommand == toLowerCase(command)
    IN IF Hits(lowerCommand, 1)
       THEN Handled(startWorkTimer(timers, t, userId), "timer")
       ELSE IF Hits(lowerCommand, 2)
       THEN Handled(checkTimerStatus(timers, t, userId), "timer")
       ELSE IF Hits(lowerCommand, 3) THEN safeModeCommand(timers, draw)
       ELSE IF Hits(lowerCommand, 4) THEN cloneCommand(timers, lowerCommand)
       ELSE IF Hits(lowerCommand, 5) THEN scanCommand(timers)
       ELSE IF Hits(lowerCommand, 6) THEN multiModeCommand(timers)
       ELSE [matched |-> FALSE, result |-> NoMatch, timers |-> timers]

(***************************************************************************)
(* Requests in flight                                                      *)
(***************************************************************************)
\* the request slots: two requests are enough to interleave
ReqIds == {"r1", "r2"}

\* req.body.userId as sent by the client; Undefined takes the default
Undefined == "<undefined>"

BodyUserIds == {Undefined, "alice"}

\* the commands the model sends
Commands == {
    "Hello AURA",
    "what is machine learning",
    "Explain gravity",
    "help me study",
    "read the document",
    "Start Work session",
    "How much time left",
    "I am stressed and overwhelmed",
    "start work, then timer status",
    "time left? I am anxious",
    "safe mode for my clone",
    "advanced clone scan",
    "scan in multi mode",
    "Multi Mode" }

NoReply == [sent |-> FALSE]

\* a free slot.  endpoint, command, userId: the request; pending, idx: the
\* provider call getAIResponse is suspended on and its position in backup;
\* reply: the body passed to res.json.  History of the call, for the
\* properties: caStart, the pointer on entry; calls, the provider calls
\* issued so far with their success; ai and src, the value getAIResponse
\* returned and where it came from.
IdleReq ==
    [pc |-> "idle", endpoint |-> "none", command |-> "", userId |-> "",
     pending |-> "none", idx |-> 0, calls |-> <<>>, caStart |-> "none",
     ai |-> Null, src |-> "none", reply |-> NoReply]

(***************************************************************************)
(* getAIResponse, cut at its awaits                                        *)
(***************************************************************************)
\* the for-loop over AI_APIS.backup from position i on: the first position
\* whose provider passes the credential test, 0 when the loop runs out
RECURSIVE nextBackup(_)
nextBackup(i) ==
    IF i > Len(backup) THEN 0
    ELSE IF HasCredential(backup[i]) THEN i
    ELSE nextBackup(i + 1)

\* the pointer reset to the primary provider instead
switchedToPrimary(i) == primary

\* AI_APIS.currentActive = backupAPI, for the backup at position i
switchedTo(i) == backup[i]

\* the caller's continuation once getAIResponse has returned `text`:
\* the pointer then holds `active`
AuraReply(text, active, t) ==
    [success |-> TRUE, response |-> text, api_used |-> active,
     timestamp |-> t, commandType |-> "ai_conversation"]

VoiceReply(text, t) ==
    [success |-> TRUE,
     response |-> [type |-> "conversation", message |-> text,
                   voiceMessage |-> generateVoiceResponse(text, "conversation")],
     timestamp |-> t, inputType |-> "voice"]

\* `response` held in a variable that all calls share: a call returns what
\* a call for another message left there
ReturnedShared(rec, v, src, active, t) ==
    LET others == {q \in ReqIds : /\ reqs[q].pc = "done"
                                  /\ reqs[q].src # "none"
                                  /\ reqs[q].command # rec.command}
        shared == IF others = {} THEN v ELSE reqs[CHOOSE q \in others : TRUE].ai
    IN [rec EXCEPT !.pc = "done", !.pending = "none", !.ai = shared, !.src = src,
                   !.reply = IF rec.endpoint = "aura" THEN AuraReply(shared.text, active, t)
                             ELSE VoiceReply(shared.text, t)]

\* getAIResponse returns value v (from src) and the handler replies
Returned(rec, v, src, active, t) ==
    [rec EXCEPT !.pc = "done", !.pending = "none", !.ai = v, !.src = src,
                !.reply = IF rec.endpoint = "aura" THEN AuraReply(v.text, active, t)
                          ELSE VoiceReply(v.text, t)]

\* the backup loop from position i
TryBackups(rec, i, active, t) ==
    LET j == nextBackup(i)
    IN IF j = 0
       THEN Returned(rec, Str(getFallbackResponse(rec.command)), "fallback", active, t)
       ELSE [rec EXCEPT !.pc = "await_backup", !.idx = j, !.pending = backup[j]]

\* entry of getAIResponse up to its first await (or its return)
EnterAI(rec, active, t) ==
    IF HasCredential(active)
    THEN [rec EXCEPT !.pc = "await_primary", !.pending = active]
    ELSE TryBackups(rec, 1, active, t)

(***************************************************************************)
(* Actions                                                                 *)
(***************************************************************************)
\* POST /api/aura/process up to its reply or its first await
AuraProcess(r, command, uid, draw) ==
    /\ reqs[r].pc = "idle"
    /\ LET userId == IF uid = Undefined THEN "default" ELSE uid
           special == handleSpecialCommands(activeTimers, now, command, userId, draw)
           rec == [IdleReq EXCEPT !.endpoint = "aura", !.command = command,
                                  !.userId = userId, !.caStart = currentActive]
       IN IF special.matched
          THEN /\ activeTimers' = special.timers
               /\ reqs' = [reqs EXCEPT ![r] =
                              [rec EXCEPT !.pc = "done",
                                          !.reply = [success |-> TRUE,
                                                     response |-> special.result,
                                                     api_used |-> "internal_system",
                                                     timestamp |-> now,
                                                     commandType |-> "system_command"]]]
          ELSE /\ activeTimers' = activeTimers
               /\ reqs' = [reqs EXCEPT ![r] = EnterAI(rec, currentActive, now)]
    /\ UNCHANGED <<clientVars, API_KEYS, currentActive, now>>

\* POST /api/voice/process up to its reply or its first await
VoiceProcess(r, command) ==
    /\ reqs[r].pc = "idle"
    /\ LET lowerCommand == toLowerCase(command)
           rec == [IdleReq EXCEPT !.endpoint = "voice", !.command = command,
                                  !.caStart = currentActive]
       IN IF \/ includes(lowerCommand, "scan")
             \/ includes(lowerCommand, "document")
             \/ includes(lowerCommand, "read")
          THEN reqs' = [reqs EXCEPT ![r] =
                          [rec EXCEPT !.pc = "done",
                                      !.reply = [success |-> TRUE,
                                                 response |-> [type |-> "scan_request",
                                                               message |-> "Please show me the document you want me to scan. I can analyze research papers, textbooks, notes, or any written content.",
                                                               voiceMessage |-> "I'm ready to scan a document for you. Please show it to your camera and I'll analyze the content and explain it to you.",
                                                               action |-> "activate_camera"],
                                                 timestamp |-> now,
                                                 inputType |-> "voice"]]]
          ELSE reqs' = [reqs EXCEPT ![r] = EnterAI(rec, currentActive, now)]
    /\ UNCHANGED <<clientVars, API_KEYS, currentActive, activeTimers, now>>

\* the browser client: the endpoint processMessage posts to
InputTypes == {"text", "voice"}

endpointFor(inputType) ==
    IF inputType = "voice" THEN "/api/voice/process" ELSE "/api/aura/process"

\* processMessage(message, inputType) up to the server's handling of the
\* request: the payload carries the command and no userId
processMessage(r, message, inputType, draw) ==
    IF endpointFor(inputType) = "/api/voice/process"
    THEN VoiceProcess(r, message)
    ELSE AuraProcess(r, message, Undefined, draw)

\* the assignment made before the answer is tested
pointerAfterAnyAnswer(rec, response, active) ==
    IF rec.pc = "await_backup" THEN switchedTo(rec.idx) ELSE active

\* AI_APIS.currentActive once the awaited call of rec has returned
\* `response`: a backup whose answer is truthy becomes the preferred one
pointerAfter(rec, response, active) ==
    IF rec.pc = "await_backup" /\ Truthy(response) THEN switchedTo(rec.idx) ELSE active

\* the provider call getAIResponse awaits settles with `outcome`, and
\* getAIResponse runs on to its next await or to its return
ProviderResponds(r, outcome) ==
    /\ reqs[r].pc \in {"await_primary", "await_backup"}
    /\ outcome \in Outcomes(reqs[r].pending, reqs[r].command)
    /\ LET rec == reqs[r]
           api == rec.pending
           response == callAPI(api, rec.command, outcome)
           logged == [rec EXCEPT !.calls = Append(@, [api |-> api, ok |-> Truthy(response)])]
           active == pointerAfter(rec, response, currentActive)
       IN /\ currentActive' = active
          /\ reqs' = [reqs EXCEPT ![r] =
                         IF Truthy(response)
                         THEN Returned(logged, response, api, active, now)
                         ELSE TryBackups(logged,
                                         IF rec.pc = "await_primary" THEN 1 ELSE rec.idx + 1,
                                         active, now)]
    /\ UNCHANGED <<clientVars, API_KEYS, activeTimers, now>>

\* the reply has gone out; the slot is free for the next request
Retire(r) ==
    /\ reqs[r].pc = "done"
    /\ reqs' = [reqs EXCEPT ![r] = IdleReq]
    /\ UNCHANGED <<clientVars, API_KEYS, currentActive, activeTimers, now>>

(***************************************************************************)
(* processDocument and the scan and status endpoints                       *)
(***************************************************************************)
\* the catalog of canned document profiles
documentTypes == <<
    [type |-> "Research Paper",
     content |-> "This appears to be a research paper about machine learning and artificial intelligence. Key topics include neural networks, deep learning algorithms, and their applications in computer vision.",
     keyPoints |-> <<"Machine learning fundamentals", "Neural network architectures",
                     "Deep learning applications", "Computer vision techniques">>],
    [type |-> "Textbook Chapter",
     content |-> "This is a textbook chapter covering programming concepts. It discusses variables, functions, loops, and object-oriented programming principles.",
     keyPoints |-> <<"Variables and data types", "Control structures and loops",
                     "Functions and methods", "Object-oriented programming">>],
    [type |-> "Assignment/Notes",
     content |-> "These appear to be study notes or assignment content covering various academic topics with bullet points and explanations.",
     keyPoints |-> <<"Key concepts highlighted", "Important definitions",
                     "Examples and explanations", "Summary points">>] >>

\* Math.floor(Math.random() * documentTypes.length)
CatalogDraws == 0..(Len(documentTypes) - 1)

\* Math.floor(Math.random() * 30)
ConfidenceDraws == 0..29

\* String.prototype.substring(0, n)
substring0(s, n) == IF Len(s) <= n THEN s ELSE SubSeq(s, 1, n)

\* the confidence without its floor of 70
processDocumentRaw(imagePath, catalogDraw, confidenceDraw) ==
    LET randomDoc == documentTypes[catalogDraw + 1]
    IN [success |-> TRUE,
        documentType |-> randomDoc.type,
        content |-> randomDoc.content,
        keyPoints |-> randomDoc.keyPoints,
        summary |-> "I've analyzed this " \o toLowerCase(randomDoc.type) \o ". "
                      \o randomDoc.content,
        voiceResponse |-> "I can see this is a " \o toLowerCase(randomDoc.type)
                            \o ". Let me tell you what I found: "
                            \o substring0(randomDoc.content, 200) \o "...",
        confidence |-> confidenceDraw]

\* the image itself is never looked at
processDocument(imagePath, catalogDraw, confidenceDraw) ==
    LET randomDoc == documentTypes[catalogDraw + 1]
    IN [success |-> TRUE,
        documentType |-> randomDoc.type,
        content |-> randomDoc.content,
        keyPoints |-> randomDoc.keyPoints,
        summary |-> "I've analyzed this " \o toLowerCase(randomDoc.type) \o ". "
                      \o randomDoc.content,
        voiceResponse |-> "I can see this is a " \o toLowerCase(randomDoc.type)
                            \o ". Let me tell you what I found: "
                            \o substring0(randomDoc.content, 200) \o "...",
        confidence |-> confidenceDraw + 70]

\* req.body as express.json leaves it: not parsed at all, or an object
\* with or without a (possibly empty) imageData
NoBody == "<no body>"

ImageBodies == {NoBody, Undefined, "", "data:image/jpeg;base64,/9j/4AAQ"}

\* req.file as multer leaves it
Files == {Undefined, "uploads/3f2a"}

NewRequest(endpoint) == [IdleReq EXCEPT !.endpoint = endpoint, !.caStart = currentActive]

\* POST /api/scan/image
ScanImage(r, imageData, catalogDraw, confidenceDraw) ==
    /\ reqs[r].pc = "idle"
    /\ LET rec == NewRequest("scan_image")
           scanResult == processDocument("camera_image", catalogDraw, confidenceDraw)
           voiceMessage == generateVoiceResponse(scanResult.voiceResponse, "scan")
           reply ==
             IF imageData = NoBody
             THEN [success |-> FALSE,
                   error |-> "Failed to process image",
                   voiceMessage |-> "I had trouble analyzing that image. Please ensure the document is clearly visible and well-lit."]
             ELSE IF imageData = Undefined \/ imageData = ""
             THEN [success |-> FALSE, error |-> "No image data provided"]
             ELSE [success |-> TRUE,
                   scan |-> [success |-> scanResult.success,
                             documentType |-> scanResult.documentType,
                             content |-> scanResult.content,
                             keyPoints |-> scanResult.keyPoints,
                             summary |-> scanResult.summary,
                             voiceResponse |-> scanResult.voiceResponse,
                             confidence |-> scanResult.confidence,
                             voiceMessage |-> voiceMessage,
                             processingTime |-> "2.3 seconds",
                             ocrAccuracy |-> ToString(scanResult.confidence) \o "%"],
                   timestamp |-> now,
                   inputType |-> "camera_scan"]
       IN reqs' = [reqs EXCEPT ![r] = [rec EXCEPT !.pc = "done", !.reply = reply]]
    /\ UNCHANGED <<clientVars, API_KEYS, currentActive, activeTimers, now>>

\* POST /api/scan/document, after multer has stored the upload
ScanDocument(r, file, catalogDraw, confidenceDraw) ==
    /\ reqs[r].pc = "idle"
    /\ LET rec == NewRequest("scan_document")
           scanResult == processDocument(file, catalogDraw, confidenceDraw)
           voiceMessage == generateVoiceResponse(scanResult.voiceResponse, "scan")
           reply ==
             IF file = Undefined
             THEN [success |-> FALSE, error |-> "No document image provided"]
             ELSE [success |-> TRUE,
                   scan |-> [success |-> scanResult.success,
                             documentType |-> scanResult.documentType,
                             content |-> scanResult.content,
                             keyPoints |-> scanResult.keyPoints,
                             summary |-> scanResult.summary,
                             voiceResponse |-> scanResult.voiceResponse,
                             confidence |-> scanResult.confidence,
                             voiceMessage |-> voiceMessage,
                             visualData |-> [documentType |-> scanResult.documentType,
                                             keyPoints |-> scanResult.keyPoints,
                                             confidence |-> scanResult.confidence]],
                   timestamp |-> now,
                   inputType |-> "document_scan"]
       IN reqs' = [reqs EXCEPT ![r] = [rec EXCEPT !.pc = "done", !.reply = reply]]
    /\ UNCHANGED <<clientVars, API_KEYS, currentActive, activeTimers, now>>

\* GET /api/status
GetStatus(r) ==
    /\ reqs[r].pc = "idle"
    /\ reqs' = [reqs EXCEPT ![r] =
                   [NewRequest("status") EXCEPT
                       !.pc = "done",
                       !.reply = [currentActiveAPI |-> currentActive,
                                  availableAPIs |-> availableAPIs,
                                  systemStatus |-> "operational",
                                  features |-> [aiConversation |-> TRUE, timerSystem |-> TRUE,
                                                safeMode |-> TRUE, aiClone |-> TRUE,
                                                autoAPISwitch |-> TRUE],
                                  timestamp |-> now]]]
    /\ UNCHANGED <<clientVars, API_KEYS, currentActive, activeTimers, now>>

\* what becomes of a request whose async handler throws before res.json:
\* Express 4 leaves the rejection unhandled and the request without a
\* reply, Express 5 passes it to the default error handler (500)
ThrowOutcomes == {"unanswered", "error_500"}

\* POST /api/aura/process or /api/voice/process with a body that has no
\* command: command.toLowerCase() throws a TypeError
MissingCommand(r, endpoint, outcome) ==
    /\ reqs[r].pc = "idle"
    /\ endpoint \in {"aura", "voice"}
    /\ outcome \in ThrowOutcomes
    /\ reqs' = [reqs EXCEPT ![r] =
                   [NewRequest(endpoint) EXCEPT !.pc = outcome, !.command = Undefined]]
    /\ UNCHANGED <<clientVars, API_KEYS, currentActive, activeTimers, now>>

\* Date.now() advances
MaxTicks == 5

TickMs == WorkDuration \div 2

Tick ==
    /\ now + TickMs <= MaxTicks * TickMs
    /\ now' = now + TickMs
    /\ UNCHANGED <<clientVars, API_KEYS, currentActive, activeTimers, reqs>>

\* Date.now() advances through as many half sessions as two full runs to
\* clone activation take
MaxLateTicks == 8

TickLate ==
    /\ now + TickMs <= MaxLateTicks * TickMs
    /\ now' = now + TickMs
    /\ UNCHANGED <<clientVars, API_KEYS, currentActive, activeTimers, reqs>>

\* Date.now() at the instants the polls of a countdown are studied at:
\* every whole minute up to MaxMinutes, and 1 ms, 999 ms and 30 s later
MaxMinutes == 41

Offsets == {0, 1, 999, 30 * 1000}

Instants == {m * 60 * 1000 + o : m \in 0..MaxMinutes, o \in Offsets}

\* Date.now() advances to a later instant once the replies have gone out
Elapse(t) ==
    /\ \A r \in ReqIds : reqs[r].pc # "done"
    /\ t > now
    /\ now' = t
    /\ UNCHANGED <<clientVars, API_KEYS, currentActive, activeTimers, reqs>>

(***************************************************************************)
(* The browser client (src/unnamed/part_000): AuraState, the chat          *)
(* transcript, the camera flow and speech recognition.  The client state   *)
(* is the triple (AuraState, page, browser): `page` is what the handlers   *)
(* write into the document, `browser` is the state of the device objects   *)
(* the handlers call.  A handler's effect is an operator from client state *)
(* to client state; an action applies it.  Speech synthesis is left out:   *)
(* isSpeaking keeps its initial value.                                     *)
(***************************************************************************)
\* cameraStream: null
NoStream == 0

\* the recognition object's life cycle between start() and its end event
RecognitionStates == {"idle", "starting", "listening", "ending"}

Client == [AuraState |-> AuraState, page |-> page, browser |-> browser]

SetClient(c) ==
    /\ AuraState' = c.AuraState
    /\ page' = c.page
    /\ browser' = c.browser

addMessage(c, sender, text) ==
    [c EXCEPT !.page.chatMessages = Append(@, [sender |-> sender, text |-> text])]

\* the wrench prefix of the text is a fixed character and is not written
addSystemMessage(c, text) == addMessage(c, "system", text)

showLoading(c, show) == [c EXCEPT !.page.loadingIndicator = show]

\* the state DOMContentLoaded leaves: AuraState as declared, the
\* recognition object made when the browser has one, the first system
\* message in the transcript
PageLoadedState(supported) ==
    addSystemMessage(
        [AuraState |-> [currentMode |-> "normal", isListening |-> FALSE,
                        isSpeaking |-> FALSE, timerActive |-> FALSE,
                        timerInterval |-> 0, timeLeft |-> 2400,
                        sessionNumber |-> 0, alarmCount |-> 0,
                        cloneActive |-> FALSE, recognition |-> supported,
                        cameraStream |-> NoStream],
         page |-> [cameraModal |-> FALSE, loadingIndicator |-> FALSE,
                   chatMessages |-> <<>>],
         browser |-> [getUserMedia |-> 0, streams |-> <<>>,
                      recognition |-> "idle", scans |-> 0, messages |-> 0,
                      intervals |-> <<>>, texts |-> <<>>]],
        "AURA Mind AI system initialized successfully. All sensors online and ready for interaction.")

PageLoaded(supported) ==
    /\ AuraState = PageLoadedState(supported).AuraState
    /\ page = PageLoadedState(supported).page
    /\ browser = PageLoadedState(supported).browser

\* bounds of the client model: transcript length, getUserMedia calls
\* awaiting their result, streams handed out, fetches in flight
MaxChat == 3

MaxPending == 2

MaxStreams == 2

MaxFetches == 1

CanAppend == Len(page.chatMessages) < MaxChat

\* ---- camera ----
\* closeCamera(): stop the tracks of the stream AuraState holds, forget it,
\* hide the modal
closeCamera(c) ==
    LET held == c.AuraState.cameraStream
        released == IF held # NoStream
                    THEN [c EXCEPT !.browser.streams[held] = "stopped",
                                   !.AuraState.cameraStream = NoStream]
                    ELSE c
    IN [released EXCEPT !.page.cameraModal = FALSE]

\* openCamera() up to its await: one more getUserMedia call is pending
openCamera(c) == [c EXCEPT !.browser.getUserMedia = @ + 1]

\* toggleCamera(): the modal's class decides
toggleCamera ==
    /\ page.cameraModal \/ browser.getUserMedia < MaxPending
    /\ SetClient(IF page.cameraModal THEN closeCamera(Client) ELSE openCamera(Client))
    /\ UNCHANGED serverVars

\* window.closeCamera, the modal's close button
closeCameraClicked ==
    /\ page.cameraModal
    /\ SetClient(closeCamera(Client))
    /\ UNCHANGED serverVars

\* openCamera() after its await, access granted: the new stream is
\* assigned to AuraState.cameraStream and the modal is shown
getUserMediaResolves ==
    /\ browser.getUserMedia > 0
    /\ Len(browser.streams) < MaxStreams
    /\ LET stream == Len(browser.streams) + 1
       IN SetClient([Client EXCEPT !.browser.getUserMedia = @ - 1,
                                   !.browser.streams = Append(@, "live"),
                                   !.AuraState.cameraStream = stream,
                                   !.page.cameraModal = TRUE])
    /\ UNCHANGED serverVars

\* openCamera() after its await, the call rejected: the catch branch
getUserMediaRejects ==
    /\ browser.getUserMedia > 0
    /\ CanAppend
    /\ SetClient(addSystemMessage([Client EXCEPT !.browser.getUserMedia = @ - 1],
                                  "Camera access denied. Please enable camera permissions for document scanning."))
    /\ UNCHANGED serverVars

\* processDocumentScan(imageData) up to its fetch
processDocumentScan(c) ==
    [closeCamera(showLoading(c, TRUE)) EXCEPT !.browser.scans = @ + 1]

\* captureDocument(), the capture button of the camera modal
captureDocument ==
    /\ page.cameraModal
    /\ browser.scans < MaxFetches
    /\ SetClient(processDocumentScan(Client))
    /\ UNCHANGED serverVars

\* handleFileUpload(event) with a file chosen, once the reader has loaded it
handleFileUpload ==
    /\ browser.scans < MaxFetches
    /\ SetClient(processDocumentScan(Client))
    /\ UNCHANGED serverVars

\* what the fetch of /api/scan/image can settle with: a reply of the
\* server, or a rejection
ScanReplies ==
    {[success |-> TRUE, scan |-> processDocument("data:image/jpeg;base64,/9j/4AAQ", 0, 0)],
     [success |-> FALSE, error |-> "No image data provided"]}

NetworkError == [rejected |-> TRUE]

scanMessage(data) ==
    IF data = NetworkError
    THEN "Document scanning failed. Please check your connection and try again."
    ELSE IF data.success /\ "scan" \in DOMAIN data
    THEN "Document scanned successfully! I found a " \o data.scan.documentType
         \o " with " \o ToString(data.scan.confidence) \o "% confidence. "
         \o data.scan.summary
    ELSE "I had trouble analyzing that document. Please try again with better lighting or a clearer image."

\* processDocumentScan after its fetch: one message, then the finally
scanFetchSettles(data) ==
    /\ browser.scans > 0
    /\ CanAppend
    /\ SetClient(showLoading(addMessage([Client EXCEPT !.browser.scans = @ - 1],
                                        "aura", scanMessage(data)),
                             FALSE))
    /\ UNCHANGED serverVars

\* ---- speech recognition ----
\* startVoiceRecognition(): start() throws unless the object is idle
startVoiceRecognition(c) ==
    IF ~c.AuraState.recognition
    THEN addSystemMessage(c, "Speech recognition is not supported in this browser.")
    ELSE IF c.browser.recognition = "idle"
    THEN [c EXCEPT !.browser.recognition = "starting"]
    ELSE addSystemMessage(c, "Failed to start voice recognition. Please try again.")

stopVoiceRecognition(c) ==
    IF c.AuraState.recognition /\ c.AuraState.isListening
    THEN [c EXCEPT !.browser.recognition = "ending"]
    ELSE c

toggleVoice ==
    /\ CanAppend
    /\ SetClient(IF AuraState.isListening
                 THEN stopVoiceRecognition(Client)
                 ELSE startVoiceRecognition(Client))
    /\ UNCHANGED serverVars

onstart ==
    /\ browser.recognition = "starting"
    /\ SetClient([Client EXCEPT !.browser.recognition = "listening",
                                !.AuraState.isListening = TRUE])
    /\ UNCHANGED serverVars

Transcripts == {"Hello AURA"}

\* onresult: the transcript goes into the chat and processMessage runs up
\* to its fetch; recognition is single-shot and ends after its result
onresult(transcript) ==
    /\ browser.recognition = "listening"
    /\ CanAppend
    /\ browser.messages < MaxFetches
    /\ SetClient([showLoading(addMessage(Client, "user", transcript), TRUE)
                     EXCEPT !.browser.messages = @ + 1,
                            !.browser.recognition = "ending"])
    /\ UNCHANGED serverVars

RecognitionErrors == {"not-allowed", "no-speech", "network"}

onerror(error) ==
    /\ browser.recognition \in {"starting", "listening"}
    /\ CanAppend
    /\ LET c == [Client EXCEPT !.AuraState.isListening = FALSE,
                               !.browser.recognition = "ending"]
       IN SetClient(IF error = "not-allowed"
                    THEN addSystemMessage(c, "Microphone access denied. Please enable microphone permissions and try again.")
                    ELSE c)
    /\ UNCHANGED serverVars

onend ==
    /\ browser.recognition = "ending"
    /\ SetClient([Client EXCEPT !.AuraState.isListening = FALSE,
                                !.browser.recognition = "idle"])
    /\ UNCHANGED serverVars

\* what the fetch of processMessage(transcript, 'voice') can settle with: a
\* reply of /api/voice/process, which carries no status, or a rejection
MessageReplies == {VoiceReply(getFallbackResponse(t), 0) : t \in Transcripts}

replyMessage(data) ==
    IF data = NetworkError
    THEN "I'm having trouble connecting to my AI systems. Please check your connection and try again."
    ELSE IF data.success
    THEN data.response.message
    ELSE "I apologize, but I encountered an issue processing your request. Please try again."

\* processMessage after its fetch: one message, then the finally
messageFetchSettles(data) ==
    /\ browser.messages > 0
    /\ CanAppend
    /\ SetClient(showLoading(addMessage([Client EXCEPT !.browser.messages = @ - 1],
                                        "aura", replyMessage(data)),
                             FALSE))
    /\ UNCHANGED serverVars

(***************************************************************************)
(* The browser client: modes, the countdown and the replies of             *)
(* /api/aura/process.  browser.intervals is the list of intervals          *)
(* setInterval has made, each running or cleared; AuraState.timerInterval  *)
(* holds the position of one of them, or NoInterval for null.              *)
(* browser.texts is the list of commands whose fetch is in flight.  The    *)
(* clone activity feed and the texts of the timer widgets are left out.    *)
(***************************************************************************)
NoInterval == 0

modeNames == [normal |-> "Normal Mode", dual |-> "Dual Mode", multi |-> "Multi Mode"]

\* `${modeNames[mode]}`
modeNameText(mode) == IF mode \in DOMAIN modeNames THEN modeNames[mode] ELSE "undefined"

setMode(c, mode) ==
    addSystemMessage([c EXCEPT !.AuraState.currentMode = mode],
                     "Switched to " \o modeNameText(mode)
                        \o ". All corresponding systems are now active.")

startTimerDisplay(c) ==
    [c EXCEPT !.AuraState.timerActive = TRUE,
              !.AuraState.timeLeft = 2400,
              !.AuraState.sessionNumber = @ + 1,
              !.browser.intervals = Append(@, "running"),
              !.AuraState.timerInterval = Len(c.browser.intervals) + 1]

stopTimer(c) ==
    LET held == c.AuraState.timerInterval
        stopped == [c EXCEPT !.AuraState.timerActive = FALSE]
    IN IF held # NoInterval
       THEN [stopped EXCEPT !.browser.intervals[held] = "cleared",
                            !.AuraState.timerInterval = NoInterval]
       ELSE stopped

activateCloneDisplay(c) == [c EXCEPT !.AuraState.cloneActive = TRUE]

activateSafeModeDisplay(c) ==
    addSystemMessage(c, "Safe Mode activated. Implementing stress reduction protocols.")

\* the client's handleTimerComplete()
handleTimerCompleteDisplay(c) ==
    LET stopped == stopTimer(c)
        alarmCount == stopped.AuraState.alarmCount + 1
    IN IF alarmCount >= 2
       THEN [addSystemMessage(activateCloneDisplay(stopped),
                              "Two work sessions completed! AI Clone is now taking over background tasks.")
                EXCEPT !.AuraState.alarmCount = 0]
       ELSE addSystemMessage([stopped EXCEPT !.AuraState.alarmCount = alarmCount],
                             "Work session " \o ToString(alarmCount)
                                \o " completed! Take a 5-minute break before the next session.")

\* status.split('_')[0]
RECURSIVE split0(_, _)
split0(s, sep) ==
    IF Len(s) = 0 \/ SubSeq(s, 1, 1) = sep THEN ""
    ELSE SubSeq(s, 1, 1) \o split0(SubSeq(s, 2, Len(s)), sep)

\* typeof data.response: the server sends an object for a system command
\* and the answer's text otherwise
typeofResponse(data) ==
    IF data.commandType = "system_command" THEN "object" ELSE "string"

\* handleSpecialResponse(data.response)
handleSpecialResponse(c, data) ==
    IF typeofResponse(data) # "object" THEN c
    ELSE LET response == data.response
             status == response.status
             c1 == IF status = "timer_started"
                   THEN [startTimerDisplay(c) EXCEPT
                            !.AuraState.sessionNumber =
                               IF "sessionNumber" \in DOMAIN response
                                  /\ response.sessionNumber # 0
                               THEN response.sessionNumber ELSE 1]
                   ELSE c
             c2 == IF status = "ai_clone_activated" THEN activateCloneDisplay(c1) ELSE c1
             c3 == IF status = "safe_mode_active" THEN activateSafeModeDisplay(c2) ELSE c2
         IN IF includes(status, "mode_active") THEN setMode(c3, split0(status, "_")) ELSE c3

\* processMessage(message, 'text') up to its fetch
processText(c, message) ==
    [showLoading(c, TRUE) EXCEPT !.browser.texts = Append(@, message)]

\* the reply of /api/aura/process to `command` from the client, which
\* sends no userId, on a server with no provider key, timer map `timers`
\* and clock t
serverReply(timers, t, command) ==
    LET special == handleSpecialCommands(timers, t, command, "default", 0)
    IN IF special.matched
       THEN [success |-> TRUE, response |-> special.result,
             api_used |-> "internal_system", timestamp |-> t,
             commandType |-> "system_command"]
       ELSE AuraReply(getFallbackResponse(command), "groq", t)

\* the server states the replies are drawn from: no session; a session a
\* minute old; a session at its first expiry; the restarted session at its
\* second expiry
Started == startWorkTimer([u \in {} |-> 0], 0, "default").timers

ServerStates ==
    {[timers |-> [u \in {} |-> 0], t |-> 0],
     [timers |-> Started, t |-> 60 * 1000],
     [timers |-> Started, t |-> WorkDuration],
     [timers |-> checkTimerStatus(Started, WorkDuration, "default").timers,
      t |-> 2 * WorkDuration]}

\* bounds of the panel model: transcript length, intervals made, seconds
\* the countdown is let run below zero
MaxTranscript == 5

MaxIntervals == 2

MaxOverrun == 1

\* the handler's messages fit the transcript
Fits(c) == Len(c.page.chatMessages) <= MaxTranscript

CanSend == Len(browser.texts) < MaxFetches

\* a mode button
ModeButtons == {"normal", "dual", "multi"}

modeButtonClicked(mode) ==
    /\ Fits(setMode(Client, mode))
    /\ SetClient(setMode(Client, mode))
    /\ UNCHANGED serverVars

\* startWorkSession(), the timer button
startWorkSession ==
    /\ AuraState.timerActive \/ CanSend
    /\ SetClient(IF AuraState.timerActive
                 THEN stopTimer(Client)
                 ELSE processText(Client, "start work session"))
    /\ UNCHANGED serverVars

\* activateClone(), the clone button
activateClone ==
    /\ IF AuraState.currentMode # "multi"
       THEN Len(page.chatMessages) < MaxTranscript
       ELSE CanSend
    /\ SetClient(IF AuraState.currentMode # "multi"
                 THEN addSystemMessage(Client, "AI Clone requires Multi Mode. Please switch modes first.")
                 ELSE processText(Client, "activate AI clone"))
    /\ UNCHANGED serverVars

\* the client's activateSafeMode(), the safe mode button
activateSafeModeClicked ==
    /\ CanSend
    /\ SetClient(processText(Client, "activate safe mode"))
    /\ UNCHANGED serverVars

\* what the user types
TypedMessages == {"start work session", "Multi Mode", "how much time left"}

sendMessage(message) ==
    /\ CanSend
    /\ Fits(addMessage(Client, "user", message))
    /\ SetClient(processText(addMessage(Client, "user", message), message))
    /\ UNCHANGED serverVars

\* the seconds to the next instant the model looks at the countdown: its
\* half, its last second, and every second from there on
RunOf(timeLeft) ==
    IF timeLeft > 1200 THEN timeLeft - 1200
    ELSE IF timeLeft > 1 THEN timeLeft - 1
    ELSE 1

\* the callback of interval i fires RunOf(timeLeft) times in a row; only
\* the last firing of a run can find timeLeft at zero or below
intervalFires(i) ==
    /\ i \in 1..Len(browser.intervals)
    /\ browser.intervals[i] = "running"
    /\ AuraState.timeLeft > -MaxOverrun
    /\ LET ticked == [Client EXCEPT !.AuraState.timeLeft = @ - RunOf(@)]
           fired == IF ticked.AuraState.timeLeft <= 0
                    THEN handleTimerCompleteDisplay(ticked)
                    ELSE ticked
       IN /\ Fits(fired)
          /\ SetClient(fired)
    /\ UNCHANGED serverVars

Without(seq, i) == SubSeq(seq, 1, i - 1) \o SubSeq(seq, i + 1, Len(seq))

\* the texts the panel sends
SentTexts ==
    TypedMessages \cup {"start work session", "activate AI clone", "activate safe mode"}

\* the server's reply to each text in each of its states
ReplyTable ==
    [s \in ServerStates, m \in SentTexts |-> serverReply(s.timers, s.t, m)]

\* what a fetch settles with: the reply of the server in one of its
\* states, or a rejection
FetchOutcomes == ServerStates \cup {NetworkError}

\* processMessage after its fetch, for the i-th text in flight
textFetchSettles(i, outcome) ==
    /\ i \in 1..Len(browser.texts)
    /\ LET data == IF outcome = NetworkError THEN NetworkError
                   ELSE ReplyTable[outcome, browser.texts[i]]
           c == [Client EXCEPT !.browser.texts = Without(@, i)]
           handled ==
              IF data = NetworkError
              THEN addMessage(c, "aura", "I'm having trouble connecting to my AI systems. Please check your connection and try again.")
              ELSE IF data.success
              THEN handleSpecialResponse(
                      addMessage(c, "aura",
                                 IF typeofResponse(data) = "object"
                                 THEN data.response.message ELSE data.response),
                      data)
              ELSE addMessage(c, "aura", "I apologize, but I encountered an issue processing your request. Please try again.")
       IN /\ Len(handled.browser.intervals) <= MaxIntervals
          /\ Fits(handled)
          /\ SetClient(showLoading(handled, FALSE))
    /\ UNCHANGED serverVars

(***************************************************************************)
(* Specifications                                                          *)
(***************************************************************************)
\* every combination of the four environment variables being set or not
Init ==
    /\ PageLoaded(TRUE)
    /\ API_KEYS \in {MakeApiKeys(env) : env \in [EnvNames -> EnvValues]}
    /\ currentActive = "groq"
    /\ activeTimers = [u \in {} |-> 0]
    /\ now = 0
    /\ reqs = [r \in ReqIds |-> IdleReq]

\* the server handling one request at a time, at one instant
Next ==
    \/ \E command \in Commands, uid \in BodyUserIds, draw \in RandomDraws :
          AuraProcess("r1", command, uid, draw)
    \/ \E command \in Commands : VoiceProcess("r1", command)
    \/ \E r \in ReqIds :
          \E outcome \in Outcomes(reqs[r].pending, reqs[r].command) :
             ProviderResponds(r, outcome)
    \/ \E r \in ReqIds : Retire(r)

Spec == Init /\ [][Next]_vars

\* the router and the timers as time passes, with no environment variable
\* set
InitTimer ==
    /\ PageLoaded(TRUE)
    /\ API_KEYS = MakeApiKeys([n \in EnvNames |-> ""])
    /\ currentActive = "groq"
    /\ activeTimers = [u \in {} |-> 0]
    /\ now = 0
    /\ reqs = [r \in ReqIds |-> IdleReq]

NextTimer ==
    \/ \E command \in Commands, uid \in BodyUserIds, draw \in RandomDraws :
          AuraProcess("r1", command, uid, draw)
    \/ \E r \in ReqIds :
          \E outcome \in Outcomes(reqs[r].pending, reqs[r].command) :
             ProviderResponds(r, outcome)
    \/ \E r \in ReqIds : Retire(r)
    \/ Tick

SpecTimer == InitTimer /\ [][NextTimer]_vars

\* one user starts and polls the work session at the instants above
TimerCommands == {"Start Work session", "How much time left"}

NextPoll ==
    \/ \E command \in TimerCommands, draw \in RandomDraws :
          AuraProcess("r1", command, Undefined, draw)
    \/ \E r \in ReqIds : Retire(r)
    \/ \E t \in Instants : Elapse(t)

SpecPoll == InitTimer /\ [][NextPoll]_vars

\* the requests of one user overlap: a request is handled while the reply
\* of another is still on its way
NextPolls ==
    \/ \E r \in ReqIds, command \in TimerCommands, draw \in RandomDraws :
          AuraProcess(r, command, "alice", draw)
    \/ \E r \in ReqIds : Retire(r)
    \/ TickLate

SpecPolls == InitTimer /\ [][NextPolls]_vars

\* the client sends typed and voice-transcribed commands
NextClient ==
    \/ \E message \in Commands, inputType \in InputTypes, draw \in RandomDraws :
          processMessage("r1", message, inputType, draw)
    \/ \E r \in ReqIds :
          \E outcome \in Outcomes(reqs[r].pending, reqs[r].command) :
             ProviderResponds(r, outcome)
    \/ \E r \in ReqIds : Retire(r)
    \/ Tick

SpecClient == InitTimer /\ [][NextClient]_vars

\* the requests of the whole HTTP surface, one at a time
HttpCommands == {"Hello AURA", "Start Work session", "read the document"}

NextHttp ==
    \/ \E command \in HttpCommands, uid \in BodyUserIds :
          AuraProcess("r1", command, uid, 0)
    \/ \E command \in HttpCommands : VoiceProcess("r1", command)
    \/ \E imageData \in ImageBodies, c \in CatalogDraws, d \in ConfidenceDraws :
          ScanImage("r1", imageData, c, d)
    \/ \E file \in Files, c \in CatalogDraws, d \in ConfidenceDraws :
          ScanDocument("r1", file, c, d)
    \/ GetStatus("r1")
    \/ \E r \in ReqIds, endpoint \in {"aura", "voice"}, outcome \in ThrowOutcomes :
          MissingCommand(r, endpoint, outcome)
    \/ \E r \in ReqIds :
          \E outcome \in Outcomes(reqs[r].pending, reqs[r].command) :
             ProviderResponds(r, outcome)
    \/ \E r \in ReqIds : Retire(r)

SpecHttp == InitTimer /\ [][NextHttp]_vars

\* two requests that reach getAIResponse are in flight together: each is
\* suspended at its awaits while the other runs
ChatMessages == {"Hello AURA", "Explain gravity"}

NextConc ==
    \/ \E r \in ReqIds, command \in ChatMessages :
          AuraProcess(r, command, Undefined, 0)
    \/ \E r \in ReqIds, command \in ChatMessages :
          VoiceProcess(r, command)
    \/ \E r \in ReqIds :
          \E outcome \in Outcomes(reqs[r].pending, reqs[r].command) :
             ProviderResponds(r, outcome)
    \/ \E r \in ReqIds : Retire(r)

SpecConc == Init /\ [][NextConc]_vars

\* the browser client on its own: the camera flow, speech recognition and
\* the two fetches they lead to, in a browser with or without speech
\* recognition
InitDevice ==
    /\ \E supported \in BOOLEAN : PageLoaded(supported)
    /\ API_KEYS = MakeApiKeys([n \in EnvNames |-> ""])
    /\ currentActive = "groq"
    /\ activeTimers = [u \in {} |-> 0]
    /\ now = 0
    /\ reqs = [r \in ReqIds |-> IdleReq]

NextDevice ==
    \/ closeCameraClicked
    \/ toggleCamera
    \/ getUserMediaResolves
    \/ getUserMediaRejects
    \/ captureDocument
    \/ handleFileUpload
    \/ \E data \in ScanReplies \cup {NetworkError} : scanFetchSettles(data)
    \/ toggleVoice
    \/ onstart
    \/ \E transcript \in Transcripts : onresult(transcript)
    \/ \E error \in RecognitionErrors : onerror(error)
    \/ onend
    \/ \E data \in MessageReplies \cup {NetworkError} : messageFetchSettles(data)

SpecDevice == InitDevice /\ [][NextDevice]_vars

\* the browser client's control panel: mode buttons, the clone and safe
\* mode buttons, typed messages and the replies
PanelMessages == {"Multi Mode", "how much time left"}

NextPanel ==
    \/ \E mode \in ModeButtons : modeButtonClicked(mode)
    \/ activateClone
    \/ activateSafeModeClicked
    \/ \E message \in PanelMessages : sendMessage(message)
    \/ \E i \in 1..MaxFetches, outcome \in FetchOutcomes : textFetchSettles(i, outcome)

SpecPanel == InitTimer /\ [][NextPanel]_vars

\* the browser client's countdown: the timer button, a typed start, the
\* interval's firings and the replies
NextCountdown ==
    \/ startWorkSession
    \/ sendMessage("start work session")
    \/ \E i \in 1..MaxIntervals : intervalFires(i)
    \/ \E i \in 1..MaxFetches, outcome \in FetchOutcomes : textFetchSettles(i, outcome)

SpecCountdown == InitTimer /\ [][NextCountdown]_vars

(***************************************************************************)
(* Properties of getAIResponse                                             *)
(***************************************************************************)
Awaiting(r) == reqs[r].pc \in {"await_primary", "await_backup"}

\* getAIResponse was called for request r and has returned
Answered(r) == reqs[r].pc = "done" /\ reqs[r].src # "none"

Min(S) == CHOOSE x \in S : \A y \in S : x <= y

OkCalls(r) == {i \in 1..Len(reqs[r].calls) : reqs[r].calls[i].ok}

FailedApis(r) == {reqs[r].calls[i].api : i \in (1..Len(reqs[r].calls)) \ OkCalls(r)}

\* C1: whatever the message, the credentials, the preferred provider and
\* the way provider calls fail, getAIResponse runs to its return (a
\* suspended call always waits on a provider call that settles, and no
\* failure leaves it) and what it returns is a non-empty text.
C1_AlwaysNonEmptyText ==
    \A r \in ReqIds :
        /\ Awaiting(r) => reqs[r].pending \in Providers
        /\ reqs[r].src # "none" =>
              /\ reqs[r].pc = "done"
              /\ ~reqs[r].ai.isNull
              /\ Len(reqs[r].ai.text) > 0

\* a call in which at least two providers were called and failed, answered
\* by the local responder
C1_Witness ==
    \E r \in ReqIds :
        /\ Answered(r)
        /\ reqs[r].src = "fallback"
        /\ Len(reqs[r].calls) >= 2
        /\ OkCalls(r) = {}

\* C2: in one getAIResponse call, a successful call to the preferred
\* provider leaves the pointer as it was on entry; when the preferred
\* provider fails or has no credential and a later call succeeds, the
\* pointer is the provider of the first successful call.
C2_PointerAfterCall ==
    \A r \in ReqIds :
        Answered(r) =>
            LET c == reqs[r].calls
                entry == reqs[r].caStart
                primaryOk == /\ HasCredential(entry)
                             /\ Len(c) >= 1
                             /\ c[1].api = entry
                             /\ c[1].ok
            IN /\ primaryOk => currentActive = entry
               /\ (~primaryOk /\ OkCalls(r) # {}) =>
                     currentActive = c[Min(OkCalls(r))].api

\* the preferred provider failed and another provider then succeeded
C2_Witness ==
    \E r \in ReqIds :
        /\ Answered(r)
        /\ reqs[r].caStart = "openai"
        /\ reqs[r].calls[1] = [api |-> "openai", ok |-> FALSE]
        /\ reqs[r].src = "gemini"
        /\ currentActive = "gemini"

\* C3: the pointer is always a configured provider; it changes only in a
\* step in which a call to the provider it changes to has just succeeded;
\* a call answered by the local responder leaves it unchanged.
C3_PointerMovesOnSuccessOnly ==
    /\ [](currentActive \in Providers)
    /\ [][/\ currentActive' # currentActive =>
               \E r \in ReqIds :
                  /\ Awaiting(r)
                  /\ reqs[r].pending = currentActive'
                  /\ reqs'[r].pc = "done"
                  /\ reqs'[r].src = currentActive'
                  /\ reqs'[r].calls = Append(reqs[r].calls,
                                             [api |-> currentActive', ok |-> TRUE])
          /\ \A r \in ReqIds :
               (reqs[r].pc # "done" /\ reqs'[r].pc = "done" /\ reqs'[r].src = "fallback")
                  => currentActive' = currentActive]_vars

\* the pointer has moved to the last backup, and a later call in which
\* every provider called failed has left it there
C3_Witness ==
    /\ currentActive = "gemini"
    /\ \E r \in ReqIds :
          /\ Answered(r)
          /\ reqs[r].src = "fallback"
          /\ reqs[r].caStart = "gemini"
          /\ Len(reqs[r].calls) >= 1

\* C4: within one getAIResponse call no provider is called more than once.
C4_NoProviderCalledTwice ==
    \A r \in ReqIds :
        \A i, j \in 1..Len(reqs[r].calls) :
            i # j => reqs[r].calls[i].api # reqs[r].calls[j].api

\* C5: getAIResponse answers with the local responder only if every
\* configured provider has no credential or was called and failed in this
\* same call.
C5_FallbackOnlyWhenAllFailed ==
    \A r \in ReqIds :
        (Answered(r) /\ reqs[r].src = "fallback") =>
            \A api \in Providers : ~HasCredential(api) \/ api \in FailedApis(r)

\* C6: a provider whose credential is absent is never called.  A credential
\* is present as GET /api/status counts it: set, and not the placeholder.
C6_NoCallWithoutCredential ==
    \A r \in ReqIds :
        /\ Awaiting(r) => reqs[r].pending \in availableAPIs
        /\ \A i \in 1..Len(reqs[r].calls) : reqs[r].calls[i].api \in availableAPIs

\* the reply of the first entry of the keyword table whose keyword occurs
\* in the lower-cased message, the default reply when there is none
FirstMatchReply(message) ==
    LET hits == {i \in 1..Len(fallbacks) :
                    includes(toLowerCase(message), fallbacks[i].keyword)}
    IN IF hits = {} THEN defaultReply ELSE fallbacks[Min(hits)].reply

\* C7: when no provider has a credential, getAIResponse calls no provider,
\* returns the first matching reply of the keyword table (or the default
\* reply) and leaves the pointer unchanged.
C7_NoCredentialMeansKeywordReply ==
    availableAPIs = {} =>
        \A r \in ReqIds :
            /\ ~Awaiting(r)
            /\ reqs[r].calls = <<>>
            /\ Answered(r) =>
                  /\ reqs[r].src = "fallback"
                  /\ reqs[r].ai.text = FirstMatchReply(reqs[r].command)
                  /\ currentActive = reqs[r].caStart

(***************************************************************************)
(* Properties of the command router                                        *)
(***************************************************************************)
\* the trigger sets, by position, that have a keyword in the lower-cased
\* command
TriggerSetsOf ==
    [command \in Commands |->
        LET lower == toLowerCase(command)
        IN {i \in 1..Len(Triggers) : \E k \in Triggers[i] : includes(lower, k)}]

TriggerSetsHit(command) == TriggerSetsOf[command]

\* the status values each trigger set's handler can answer with, in the
\* order session-start, timer-status, stress, clone, scan, mode-switch
StatusesOf == <<
    {"timer_started"},
    {"no_active_timer", "active", "session_complete", "ai_clone_activated"},
    {"safe_mode_active"},
    {"clone_activated", "advanced_clone_active"},
    {"scan_mode_ready"},
    {"multi_mode_active"} >>

\* request r is a POST /api/aura/process whose handler starts in this step
AuraArrives(r) ==
    /\ reqs[r].pc = "idle"
    /\ reqs'[r].pc # "idle"
    /\ reqs'[r].endpoint = "aura"

\* the session startWorkTimer creates at the current instant
FreshSession ==
    [startTime |-> now, duration |-> WorkDuration, alarmCount |-> 0,
     isActive |-> TRUE, mode |-> "work", sessionNumber |-> 1]

\* the timer map differs from the one before the step at most at user u
OnlyTimerOf(u) ==
    /\ DOMAIN activeTimers' \subseteq DOMAIN activeTimers \cup {u}
    /\ \A v \in DOMAIN activeTimers : v # u =>
          v \in DOMAIN activeTimers' /\ activeTimers'[v] = activeTimers[v]

\* C8: a command that matches triggers is answered by the handler of the
\* first matching set in the order session-start, timer-status, stress,
\* clone, scan, mode-switch, and the timer map changes as that handler
\* alone changes it: a fresh session of the user for session-start, the
\* user's session only for timer-status, nothing for the others.
C8_FirstMatchingSetOnly ==
    /\ [](\A r \in ReqIds :
            (/\ reqs[r].pc = "done"
             /\ reqs[r].endpoint = "aura"
             /\ TriggerSetsHit(reqs[r].command) # {}) =>
                /\ reqs[r].reply.commandType = "system_command"
                /\ reqs[r].reply.response.status
                      \in StatusesOf[Min(TriggerSetsHit(reqs[r].command))])
    /\ [][\A r \in ReqIds :
            (AuraArrives(r) /\ TriggerSetsHit(reqs'[r].command) # {}) =>
                LET first == Min(TriggerSetsHit(reqs'[r].command))
                    u == reqs'[r].userId
                IN /\ first = 1 =>
                        /\ OnlyTimerOf(u)
                        /\ u \in DOMAIN activeTimers'
                        /\ activeTimers'[u] = FreshSession
                   /\ first = 2 =>
                        /\ OnlyTimerOf(u)
                        /\ reqs'[r].reply.response.status \in {"no_active_timer", "active"}
                              => activeTimers' = activeTimers
                   /\ first >= 3 => activeTimers' = activeTimers]_vars

\* a command with a timer-status trigger and a stress trigger was answered
\* by the poll, which completed the first cycle
C8_Witness ==
    \E r \in ReqIds :
        /\ reqs[r].pc = "done"
        /\ reqs[r].endpoint = "aura"
        /\ {2, 3} \subseteq TriggerSetsHit(reqs[r].command)
        /\ reqs[r].reply.response.status = "session_complete"
        /\ activeTimers[reqs[r].userId].alarmCount = 1

\* C9: POST /api/aura/process calls getAIResponse exactly for the commands
\* that match no trigger: a command matching a trigger is answered as
\* 'system_command' with no provider call and the pointer as it was, a
\* command matching none as 'ai_conversation' with the text getAIResponse
\* returned.
C9_AIOnlyWithoutTrigger ==
    \A r \in ReqIds :
        reqs[r].endpoint = "aura" =>
            IF TriggerSetsHit(reqs[r].command) # {}
            THEN /\ reqs[r].pc = "done"
                 /\ reqs[r].reply.commandType = "system_command"
                 /\ reqs[r].src = "none"
                 /\ reqs[r].calls = <<>>
                 /\ currentActive = reqs[r].caStart
            ELSE /\ reqs[r].pc = "done" =>
                    /\ reqs[r].src # "none"
                    /\ reqs[r].reply.commandType = "ai_conversation"
                    /\ reqs[r].reply.response = reqs[r].ai.text
                 /\ reqs[r].pc # "done" => Awaiting(r)

\* a trigger command answered by the router after earlier conversations
\* have moved the pointer
C9_Witness ==
    \E r \in ReqIds :
        /\ reqs[r].pc = "done"
        /\ reqs[r].endpoint = "aura"
        /\ reqs[r].reply.commandType = "system_command"
        /\ reqs[r].reply.response.status = "safe_mode_active"
        /\ currentActive = "openai"

\* the command has a stress trigger and no session-start or timer-status
\* trigger
StressOnly(command) ==
    /\ 3 \in TriggerSetsHit(command)
    /\ TriggerSetsHit(command) \cap {1, 2} = {}

\* C10: whatever the state of the user's timer, routing a command with a
\* stress trigger and no session-start or timer-status trigger answers
\* 'safe_mode_active' and leaves the timer map unchanged.
C10_SafeModeKeepsTimers ==
    [][\A r \in ReqIds :
          (AuraArrives(r) /\ StressOnly(reqs'[r].command)) =>
              /\ reqs'[r].pc = "done"
              /\ reqs'[r].reply.response.status = "safe_mode_active"
              /\ activeTimers' = activeTimers]_vars

\* safe mode answered while the user's second cycle has expired and has not
\* been polled yet
C10_Witness ==
    \E r \in ReqIds :
        /\ reqs[r].pc = "done"
        /\ reqs[r].endpoint = "aura"
        /\ StressOnly(reqs[r].command)
        /\ reqs[r].reply.response.status = "safe_mode_active"
        /\ reqs[r].userId \in DOMAIN activeTimers
        /\ LET timer == activeTimers[reqs[r].userId]
           IN /\ timer.isActive
              /\ timer.alarmCount = 1
              /\ now - timer.startTime >= timer.duration

(***************************************************************************)
(* Properties of the timer sessions                                        *)
(***************************************************************************)
\* the first trigger set the command of request r hits after this step
FirstSetOf(r) == Min(TriggerSetsHit(reqs'[r].command))

\* request r is a session-start command handled in this step
StartArrives(r) ==
    /\ AuraArrives(r)
    /\ TriggerSetsHit(reqs'[r].command) # {}
    /\ FirstSetOf(r) = 1

\* request r is a timer-status command (a poll) handled in this step
PollArrives(r) ==
    /\ AuraArrives(r)
    /\ TriggerSetsHit(reqs'[r].command) # {}
    /\ FirstSetOf(r) = 2

\* the 40-minute countdown, in milliseconds, as the specification states it
Seconds2400 == 2400 * 1000

HasSession(u) == u \in DOMAIN activeTimers

\* user u has an active session and the time elapsed since its startTime
ActiveSession(u) == HasSession(u) /\ activeTimers[u].isActive

ElapsedOf(u) == now - activeTimers[u].startTime

\* C11: a session-start command for a user whose session is active and
\* still within its window leaves startTime and the cycle count of that
\* session as they are.
C11_StartKeepsActiveSession ==
    [][\A r \in ReqIds :
          LET u == reqs'[r].userId
          IN (StartArrives(r) /\ ActiveSession(u) /\ ElapsedOf(u) < Seconds2400) =>
                /\ activeTimers'[u].startTime = activeTimers[u].startTime
                /\ activeTimers'[u].alarmCount = activeTimers[u].alarmCount]_vars

\* C12: a poll at least 2400 s after the start answers 'session_complete'
\* with cycle count 1, leaves the session active and restarts the countdown
\* at the poll instant; a poll at least 2400 s after that restart answers
\* 'ai_clone_activated' with cycle count 2 and leaves the session inactive.
C12_TwoExpiriesActivateClone ==
    [][\A r \in ReqIds :
          LET u == reqs'[r].userId
              res == reqs'[r].reply.response
          IN (PollArrives(r) /\ ActiveSession(u) /\ ElapsedOf(u) >= Seconds2400) =>
                /\ activeTimers[u].alarmCount = 0 =>
                      /\ res.status = "session_complete"
                      /\ res.alarmCount = 1
                      /\ activeTimers'[u].alarmCount = 1
                      /\ activeTimers'[u].isActive
                      /\ activeTimers'[u].startTime = now
                /\ activeTimers[u].alarmCount = 1 =>
                      /\ res.status = "ai_clone_activated"
                      /\ res.alarmCount = 2
                      /\ activeTimers'[u].alarmCount = 2
                      /\ ~activeTimers'[u].isActive
                /\ activeTimers[u].alarmCount \in {0, 1}]_vars

\* the second expiry has been polled: the clone is activated and the
\* session of the user is inactive with two cycles counted
C12_Witness ==
    \E r \in ReqIds :
        /\ reqs[r].pc = "done"
        /\ reqs[r].endpoint = "aura"
        /\ reqs[r].reply.commandType = "system_command"
        /\ reqs[r].reply.response.status = "ai_clone_activated"
        /\ reqs[r].reply.response.alarmCount = 2
        /\ ~activeTimers[reqs[r].userId].isActive
        /\ activeTimers[reqs[r].userId].alarmCount = 2
        /\ now >= 2 * Seconds2400

\* the part of the timer map that belongs to user u
SessionOf(u) == [v \in DOMAIN activeTimers \cap {u} |-> activeTimers[v]]

\* C14: a request with user identifier u leaves the session of every other
\* identifier as it was and is answered as it would be were u's session
\* the only one in the map; a request without identifier does so with
\* u = 'default'.
C14_OwnSessionOnly ==
    [][\A r \in ReqIds, uid \in BodyUserIds, draw \in RandomDraws :
          (AuraArrives(r) /\ AuraProcess(r, reqs'[r].command, uid, draw)) =>
             LET u == IF uid = Undefined THEN "default" ELSE uid
                 alone == handleSpecialCommands(SessionOf(u), now,
                                                reqs'[r].command, u, draw)
             IN /\ reqs'[r].userId = u
                /\ OnlyTimerOf(u)
                /\ alone.matched =>
                      /\ reqs'[r].reply.response = alone.result
                      /\ u \in DOMAIN alone.timers =>
                            /\ u \in DOMAIN activeTimers'
                            /\ activeTimers'[u] = alone.timers[u]]_vars

\* 'alice' polls her expired first cycle at an instant when the session
\* of 'default', started later, is still in its first minutes
C14_Witness ==
    \E r \in ReqIds :
        /\ reqs[r].pc = "done"
        /\ reqs[r].userId = "alice"
        /\ reqs[r].reply.commandType = "system_command"
        /\ reqs[r].reply.response.status = "session_complete"
        /\ "default" \in DOMAIN activeTimers
        /\ activeTimers["default"].alarmCount = 0
        /\ activeTimers["default"].isActive
        /\ activeTimers["default"].startTime # activeTimers["alice"].startTime
        /\ activeTimers["alice"].alarmCount = 1

\* in this step a poll of user u finds the countdown expired and counts
\* one more cycle
CountedByPoll(u) ==
    \E r \in ReqIds :
        /\ PollArrives(r)
        /\ reqs'[r].userId = u
        /\ ActiveSession(u)
        /\ ElapsedOf(u) >= Seconds2400
        /\ activeTimers'[u].alarmCount = activeTimers[u].alarmCount + 1

\* in this step a session-start command replaces the inactive session of
\* user u by a fresh one
StartedAfresh(u) ==
    \E r \in ReqIds :
        /\ StartArrives(r)
        /\ reqs'[r].userId = u
        /\ ~activeTimers[u].isActive
        /\ activeTimers'[u] = FreshSession

\* C15: every session has a cycle count in {0, 1, 2} and is inactive exactly
\* when the count is 2; the count of a session changes only in a poll that
\* finds the countdown expired, and then by +1 (a session-start for a user
\* whose session is inactive begins a new session, at count 0).
C15_CycleCountChangesInPollOnly ==
    /\ [](\A u \in DOMAIN activeTimers :
             /\ activeTimers[u].alarmCount \in {0, 1, 2}
             /\ ~activeTimers[u].isActive <=> activeTimers[u].alarmCount = 2)
    /\ [][\A u \in DOMAIN activeTimers :
             /\ u \in DOMAIN activeTimers'
             /\ activeTimers'[u].alarmCount # activeTimers[u].alarmCount =>
                   CountedByPoll(u) \/ StartedAfresh(u)]_vars

\* C13: a poll less than one second after the start of the session is
\* answered 'active' with timeLeft '40:00' or '39:59', no progress, and
\* leaves the session as it is.
C13_PollRightAfterStart ==
    [][\A r \in ReqIds :
          LET u == reqs'[r].userId
              res == reqs'[r].reply.response
          IN (PollArrives(r) /\ ActiveSession(u) /\ ElapsedOf(u) < 1000) =>
                /\ res.status = "active"
                /\ res.timeLeft \in {"40:00", "39:59"}
                /\ res.timeLeft = "40:00" <=> ElapsedOf(u) = 0
                /\ res.progress = 0
                /\ res.sessionNumber = activeTimers[u].sessionNumber
                /\ activeTimers' = activeTimers]_vars

\* the session started at a whole minute is polled 999 ms later
C13_Witness ==
    \E r \in ReqIds :
        /\ reqs[r].pc = "done"
        /\ reqs[r].reply.commandType = "system_command"
        /\ reqs[r].reply.response.status = "active"
        /\ reqs[r].reply.response.timeLeft = "39:59"
        /\ activeTimers[reqs[r].userId].alarmCount = 0
        /\ reqs[r].reply.timestamp - activeTimers[reqs[r].userId].startTime = 999

\* the four encouragement strings, from the first of the session to the last
Encouragements == <<
    "Great start! You're in the flow zone.",
    "Halfway there! Keep up the excellent focus.",
    "Final stretch! You're doing amazing.",
    "Almost done! Finish strong!" >>

\* the time left, in ms, of the active session of user u
RemainingOf(u) == Seconds2400 - ElapsedOf(u)

Minutes(n) == n * 60 * 1000

\* C20: the poll of an active, unexpired session carries the first string
\* when more than 30 minutes remain, the second when more than 20 and at
\* most 30 remain, the third when more than 10 and at most 20 remain, the
\* fourth otherwise.
C20_MessageByTimeLeft ==
    [][\A r \in ReqIds :
          LET u == reqs'[r].userId
              res == reqs'[r].reply.response
          IN (PollArrives(r) /\ ActiveSession(u) /\ RemainingOf(u) > 0) =>
                /\ res.status = "active"
                /\ res.motivationalMessage =
                      IF RemainingOf(u) > Minutes(30) THEN Encouragements[1]
                      ELSE IF RemainingOf(u) > Minutes(20) THEN Encouragements[2]
                      ELSE IF RemainingOf(u) > Minutes(10) THEN Encouragements[3]
                      ELSE Encouragements[4]]_vars

\* C20, amended: the poll of an active, unexpired session carries the first
\* string when at least 31 minutes remain, the second when at least 21 and
\* less than 31 remain, the third when at least 11 and less than 21 remain,
\* the fourth when less than 11 remain.
C20_MessageByWholeMinutesLeft ==
    [][\A r \in ReqIds :
          LET u == reqs'[r].userId
              res == reqs'[r].reply.response
          IN (PollArrives(r) /\ ActiveSession(u) /\ RemainingOf(u) > 0) =>
                /\ res.status = "active"
                /\ res.motivationalMessage =
                      IF RemainingOf(u) >= Minutes(31) THEN Encouragements[1]
                      ELSE IF RemainingOf(u) >= Minutes(21) THEN Encouragements[2]
                      ELSE IF RemainingOf(u) >= Minutes(11) THEN Encouragements[3]
                      ELSE Encouragements[4]]_vars

\* a poll with 30 minutes 30 seconds left carries the second string
C20_Witness ==
    \E r \in ReqIds :
        /\ reqs[r].pc = "done"
        /\ reqs[r].reply.commandType = "system_command"
        /\ reqs[r].reply.response.status = "active"
        /\ reqs[r].reply.response.timeLeft = "30:30"
        /\ reqs[r].reply.response.motivationalMessage = Encouragements[2]

\* the reply of request r, still on its way, is that of a timer command
SystemReply(r) ==
    /\ reqs[r].pc = "done"
    /\ reqs[r].endpoint = "aura"
    /\ reqs[r].reply.commandType = "system_command"

\* C16: a session-start for a user whose session is inactive with two
\* cycles counted yields an active session with cycle count 0 and session
\* number 1; from there the count reaches 1 only in a poll that finds the
\* countdown expired, and 'ai_clone_activated' is answered only by a poll
\* that finds the countdown expired with the count at 1.
C16_RestartAfterClone ==
    [][\A r \in ReqIds :
          LET u == reqs'[r].userId
              res == reqs'[r].reply.response
          IN /\ (StartArrives(r) /\ HasSession(u) /\ ~activeTimers[u].isActive
                                 /\ activeTimers[u].alarmCount = 2) =>
                   /\ res.status = "timer_started"
                   /\ res.sessionNumber = 1
                   /\ activeTimers'[u].isActive
                   /\ activeTimers'[u].alarmCount = 0
                   /\ activeTimers'[u].sessionNumber = 1
                   /\ activeTimers'[u].startTime = now
             /\ (PollArrives(r) /\ res.status = "ai_clone_activated") =>
                   /\ ActiveSession(u)
                   /\ activeTimers[u].alarmCount = 1
                   /\ ElapsedOf(u) >= Seconds2400
             /\ (PollArrives(r) /\ ActiveSession(u) /\ activeTimers[u].alarmCount = 0) =>
                   /\ res.status \in {"active", "session_complete"}
                   /\ res.status = "session_complete" <=> ElapsedOf(u) >= Seconds2400
                   /\ activeTimers'[u].alarmCount =
                         IF ElapsedOf(u) >= Seconds2400 THEN 1 ELSE 0]_vars

\* the clone was activated for a user, and 80 minutes or more later it is
\* activated for the same user again: the user started afresh in between
\* and let two more countdowns expire
C16_Witness ==
    \E r, q \in ReqIds :
        /\ r # q
        /\ SystemReply(r) /\ SystemReply(q)
        /\ reqs[r].userId = reqs[q].userId
        /\ reqs[r].reply.response.status = "ai_clone_activated"
        /\ reqs[q].reply.response.status = "ai_clone_activated"
        /\ reqs[q].reply.timestamp >= reqs[r].reply.timestamp + 2 * Seconds2400
        /\ activeTimers[reqs[q].userId].alarmCount = 2

\* the reply of request r, still on its way, tells that a poll of user u
\* found the countdown expired less than 2400 s ago
CompletionJustPolled(r, u) ==
    /\ SystemReply(r)
    /\ reqs[r].userId = u
    /\ reqs[r].reply.response.status \in {"session_complete", "ai_clone_activated"}
    /\ now - reqs[r].reply.timestamp < Seconds2400

\* C17: no poll counts more than one cycle, and a poll of the same user that
\* arrives less than 2400 s after a poll that found the countdown expired is
\* answered 'active' and counts nothing.
C17_SecondPollIsActive ==
    [][\A r, q \in ReqIds :
          LET u == reqs'[q].userId
              res == reqs'[q].reply.response
          IN /\ (PollArrives(q) /\ HasSession(u)) =>
                   activeTimers'[u].alarmCount - activeTimers[u].alarmCount \in {0, 1}
             /\ (r # q /\ PollArrives(q) /\ CompletionJustPolled(r, u)) =>
                   /\ res.status = "active"
                   /\ activeTimers' = activeTimers]_vars

\* C17, amended: no poll counts more than one cycle, and a poll of the same
\* user that arrives less than 2400 s after a poll that found the countdown
\* expired counts nothing; it is answered 'active' when the session is
\* active (after the first expiry, or after a new start) and
\* 'no_active_timer' when it is not (after the second expiry).
C17_SecondPollCountsNothing ==
    [][\A r, q \in ReqIds :
          LET u == reqs'[q].userId
              res == reqs'[q].reply.response
          IN /\ (PollArrives(q) /\ HasSession(u)) =>
                   activeTimers'[u].alarmCount - activeTimers[u].alarmCount \in {0, 1}
             /\ (r # q /\ PollArrives(q) /\ CompletionJustPolled(r, u)) =>
                   /\ res.status = IF activeTimers[u].isActive
                                   THEN "active" ELSE "no_active_timer"
                   /\ activeTimers' = activeTimers]_vars

\* two polls at the same instant after the first expiry: one is answered
\* 'session_complete', the other 'active', and one cycle is counted
C17_Witness ==
    \E r, q \in ReqIds :
        /\ r # q
        /\ SystemReply(r) /\ SystemReply(q)
        /\ reqs[r].userId = reqs[q].userId
        /\ reqs[r].reply.response.status = "session_complete"
        /\ reqs[q].reply.response.status = "active"
        /\ reqs[q].reply.timestamp = reqs[r].reply.timestamp
        /\ activeTimers[reqs[q].userId].alarmCount = 1
        /\ activeTimers[reqs[q].userId].startTime = reqs[r].reply.timestamp

(***************************************************************************)
(* Properties of overlapping requests                                      *)
(***************************************************************************)
\* the text the reply of request r carries
ReplyText(r) ==
    IF reqs[r].endpoint = "aura" THEN reqs[r].reply.response
    ELSE reqs[r].reply.response.message

\* the text a provider's answer to request r's own message trims to
OwnAnswer(r) == "Re: " \o reqs[r].command

\* C18: with calls of getAIResponse overlapping, every call returns either
\* the text of the last provider call it issued itself, answering its own
\* message, or the local reply to its own message after all the calls it
\* issued failed; the reply carries that text, and the pointer is always one
\* of the configured providers.
C18_OwnOutputUnderInterleaving ==
    /\ currentActive \in {primary} \cup {backup[i] : i \in 1..Len(backup)}
    /\ \A r \in ReqIds :
          Answered(r) =>
             /\ ReplyText(r) = reqs[r].ai.text
             /\ \/ /\ reqs[r].src = "fallback"
                   /\ OkCalls(r) = {}
                   /\ reqs[r].ai.text = FirstMatchReply(reqs[r].command)
                \/ /\ reqs[r].src \in Providers
                   /\ reqs[r].calls # <<>>
                   /\ OkCalls(r) = {Len(reqs[r].calls)}
                   /\ reqs[r].calls[Len(reqs[r].calls)].api = reqs[r].src
                   /\ reqs[r].ai.text = OwnAnswer(r)

\* two calls for different messages overlapped: the pointer moved under
\* the first while it was suspended, and each returned the answer to its
\* own message, from different providers
C18_Witness ==
    \E r, q \in ReqIds :
        /\ r # q
        /\ Answered(r) /\ Answered(q)
        /\ reqs[r].command # reqs[q].command
        /\ reqs[r].src \in Providers /\ reqs[q].src \in Providers
        /\ reqs[r].src # reqs[q].src
        /\ reqs[r].caStart = reqs[q].caStart
        /\ reqs[r].ai.text = OwnAnswer(r)
        /\ reqs[q].ai.text = OwnAnswer(q)
        /\ currentActive # reqs[r].caStart

(***************************************************************************)
(* Properties of the client's requests                                     *)
(***************************************************************************)
\* request r is a POST /api/voice/process whose handler starts in this step
VoiceArrives(r) ==
    /\ reqs[r].pc = "idle"
    /\ reqs'[r].pc # "idle"
    /\ reqs'[r].endpoint = "voice"

\* C19: a command sent with inputType 'voice' is answered with the status,
\* and changes the timer session of the user, as the same command sent
\* with inputType 'text' at the same instant would: a command with a
\* trigger is answered by its handler, any other by getAIResponse.
C19_VoiceRoutedAsText ==
    [][\A r \in ReqIds :
          VoiceArrives(r) =>
             LET typed == handleSpecialCommands(activeTimers, now,
                                                reqs'[r].command, "default", 0)
             IN IF typed.matched
                THEN /\ reqs'[r].pc = "done"
                     /\ "status" \in DOMAIN reqs'[r].reply.response
                     /\ reqs'[r].reply.response.status = typed.result.status
                     /\ activeTimers' = typed.timers
                ELSE /\ reqs'[r].pc = "done" => reqs'[r].src = "fallback"
                     /\ activeTimers' = activeTimers]_vars

(***************************************************************************)
(* Properties of the HTTP surface                                          *)
(***************************************************************************)
\* s ends with suffix
endsWith(s, suffix) ==
    /\ Len(s) >= Len(suffix)
    /\ SubSeq(s, Len(s) - Len(suffix) + 1, Len(s)) = suffix

\* the status values the response shape lists
ListedStatus(status) ==
    \/ status \in {"timer_started", "active", "session_complete",
                   "ai_clone_activated", "safe_mode_active", "scan_mode_ready"}
    \/ endsWith(status, "_mode_active")

\* C21: the status of every system-command response of POST
\* /api/aura/process is timer_started, active, session_complete,
\* ai_clone_activated, safe_mode_active, scan_mode_ready or a value of the
\* form '{mode}_mode_active'.
C21_StatusIsListed ==
    \A r \in ReqIds :
        SystemReply(r) => ListedStatus(reqs[r].reply.response.status)

\* C21, amended: the status of every system-command response is one of the
\* listed values or no_active_timer (a poll without an active session),
\* clone_activated or advanced_clone_active (the clone command).
C21_StatusIsListedOrOneOfThree ==
    \A r \in ReqIds :
        SystemReply(r) =>
            \/ ListedStatus(reqs[r].reply.response.status)
            \/ reqs[r].reply.response.status \in
                  {"no_active_timer", "clone_activated", "advanced_clone_active"}

\* the clone command is answered with a status that is not in the list
C21_Witness ==
    \E r \in ReqIds :
        /\ SystemReply(r)
        /\ reqs[r].reply.response.status = "advanced_clone_active"
        /\ ~ListedStatus(reqs[r].reply.response.status)

\* request r is answered in this step
Replied(r) == reqs[r].pc = "idle" /\ reqs'[r].pc = "done"

\* this step handles a scan request of r whose payload is missing
ScanWithoutPayload(r) ==
    \/ \E imageData \in {NoBody, Undefined, ""} : ScanImage(r, imageData, 0, 0)
    \/ ScanDocument(r, Undefined, 0, 0)

\* C24: a scan request without image or document is answered at once with
\* success:false and a message of apology for the user, returns no scan
\* result, and leaves the timer map and the preferred pointer as they are.
C24_MissingPayloadApology ==
    [][\A r \in ReqIds :
          ScanWithoutPayload(r) =>
             /\ Replied(r)
             /\ reqs'[r].reply.success = FALSE
             /\ "scan" \notin DOMAIN reqs'[r].reply
             /\ "voiceMessage" \in DOMAIN reqs'[r].reply
             /\ Len(reqs'[r].reply.voiceMessage) > 0
             /\ activeTimers' = activeTimers
             /\ currentActive' = currentActive]_vars

\* the profiles a scan may report, and the results processDocument can
\* return for each image path
CatalogTypes == {"Research Paper", "Textbook Chapter", "Assignment/Notes"}

ImagePaths == {"camera_image"} \cup (Files \ {Undefined})

ResultsFor ==
    [imagePath \in ImagePaths |->
        {processDocument(imagePath, c, d) : c \in CatalogDraws, d \in ConfidenceDraws}]

ScanDone(r) ==
    /\ reqs[r].pc = "done"
    /\ reqs[r].endpoint \in {"scan_image", "scan_document"}
    /\ reqs[r].reply.success

\* C25: every scan result has an integer confidence in [70,100] and a
\* documentType among Research Paper, Textbook Chapter, Assignment/Notes,
\* with the content and keyPoints of the catalog entry of that type; and
\* the results processDocument can return are the same for every input.
C25_ScanResultFromCatalog ==
    /\ \A r \in ReqIds :
          ScanDone(r) =>
             LET scan == reqs[r].reply.scan
             IN /\ scan.confidence \in 70..100
                /\ scan.documentType \in CatalogTypes
                /\ \E i \in 1..Len(documentTypes) :
                      /\ documentTypes[i].type = scan.documentType
                      /\ documentTypes[i].content = scan.content
                      /\ documentTypes[i].keyPoints = scan.keyPoints
                /\ \E imagePath \in ImagePaths : \E res \in ResultsFor[imagePath] :
                      /\ res.documentType = scan.documentType
                      /\ res.confidence = scan.confidence
                      /\ res.summary = scan.summary
    /\ \A p, q \in ImagePaths : ResultsFor[p] = ResultsFor[q]
    /\ {res.documentType : res \in ResultsFor["camera_image"]} = CatalogTypes

\* an uploaded document scanned as Assignment/Notes with confidence 99
C25_Witness ==
    \E r \in ReqIds :
        /\ ScanDone(r)
        /\ reqs[r].endpoint = "scan_document"
        /\ reqs[r].reply.scan.documentType = "Assignment/Notes"
        /\ reqs[r].reply.scan.keyPoints[4] = "Summary points"
        /\ reqs[r].reply.scan.confidence = 99

\* C26: every response of the five endpoints, of success and of failure,
\* has a timestamp field.
C26_EveryResponseHasTimestamp ==
    \A r \in ReqIds :
        reqs[r].pc = "done" => "timestamp" \in DOMAIN reqs[r].reply

\* the HTTP status code of a reply: res.json is never preceded by
\* res.status, so every reply a handler sends has code 200
statusCode(rec) == IF rec.pc = "error_500" THEN 500 ELSE 200

\* C27: every request is answered, with HTTP 200 and a body that has a
\* boolean `success`.
C27_Always200WithSuccess ==
    \A r \in ReqIds :
        reqs[r].pc \notin {"idle", "await_primary", "await_backup"} =>
            /\ reqs[r].pc = "done"
            /\ statusCode(reqs[r]) = 200
            /\ "success" \in DOMAIN reqs[r].reply
            /\ reqs[r].reply.success \in BOOLEAN

(***************************************************************************)
(* Properties of the polls                                                 *)
(***************************************************************************)
\* the cycle count of user u, 0 for a user without session
CountOf(timers, u) == IF u \in DOMAIN timers THEN timers[u].alarmCount ELSE 0

\* C28: a poll counts at most one cycle however late it comes: the first
\* poll of a session, even more than two durations after the start, is
\* answered 'session_complete'; a start puts the count at 0, the count
\* becomes 1 only in a poll answered 'session_complete', and
\* 'ai_clone_activated' is answered only to a poll that finds the count
\* at 1.
C28_OneCyclePerPoll ==
    [][/\ \A r \in ReqIds :
             LET u == reqs'[r].userId
                 res == reqs'[r].reply.response
             IN /\ PollArrives(r) =>
                      /\ CountOf(activeTimers', u) - CountOf(activeTimers, u) \in {0, 1}
                      /\ res.status = "ai_clone_activated" =>
                            CountOf(activeTimers, u) = 1 /\ HasSession(u)
                      /\ (ActiveSession(u) /\ activeTimers[u].alarmCount = 0
                            /\ ElapsedOf(u) > 2 * Seconds2400) =>
                               /\ res.status = "session_complete"
                               /\ res.alarmCount = 1
                               /\ activeTimers'[u].isActive
                /\ StartArrives(r) => CountOf(activeTimers', u) = 0
       /\ \A u \in DOMAIN activeTimers' :
             (activeTimers'[u].alarmCount = 1 /\ CountOf(activeTimers, u) # 1) =>
                \E r \in ReqIds :
                   /\ PollArrives(r)
                   /\ reqs'[r].userId = u
                   /\ reqs'[r].reply.response.status = "session_complete"]_vars

\* the reply to a start is still on its way when, more than two durations
\* later, a poll of the same user is answered 'session_complete'
C28_Witness ==
    \E r, q \in ReqIds :
        /\ r # q
        /\ SystemReply(r) /\ SystemReply(q)
        /\ reqs[r].userId = reqs[q].userId
        /\ reqs[r].reply.response.status = "timer_started"
        /\ reqs[q].reply.response.status = "session_complete"
        /\ reqs[q].reply.timestamp - reqs[r].reply.timestamp > 2 * Seconds2400
        /\ activeTimers[reqs[q].userId].alarmCount = 1
        /\ activeTimers[reqs[q].userId].startTime = reqs[q].reply.timestamp

\* C29: a poll for a user without session, or with an inactive one, is
\* answered 'no_active_timer' and leaves the timer map as it is.
C29_PollWithoutActiveSession ==
    [][\A r \in ReqIds :
          LET u == reqs'[r].userId
          IN (PollArrives(r) /\ ~ActiveSession(u)) =>
                /\ Replied(r)
                /\ reqs'[r].reply.response.status = "no_active_timer"
                /\ activeTimers' = activeTimers
                /\ DOMAIN activeTimers' = DOMAIN activeTimers]_vars

\* an inactive session (two cycles counted) has been polled, long after
\* its countdown, and is as it was
C29_Witness ==
    \E r \in ReqIds :
        /\ SystemReply(r)
        /\ reqs[r].reply.response.status = "no_active_timer"
        /\ reqs[r].userId \in DOMAIN activeTimers
        /\ ~activeTimers[reqs[r].userId].isActive
        /\ activeTimers[reqs[r].userId].alarmCount = 2
        /\ reqs[r].reply.timestamp - activeTimers[reqs[r].userId].startTime
              >= 2 * Seconds2400

\* C30: in every 'ai_conversation' response api_used names the provider
\* whose call produced the returned text, and names no provider when the
\* text is the local keyword reply.
C30_ApiUsedIsTheSource ==
    \A r \in ReqIds :
        (Answered(r) /\ reqs[r].endpoint = "aura") =>
            /\ reqs[r].reply.commandType = "ai_conversation"
            /\ reqs[r].src \in Providers => reqs[r].reply.api_used = reqs[r].src
            /\ reqs[r].src = "fallback" => reqs[r].reply.api_used \notin Providers

(***************************************************************************)
(* Properties of the browser client                                        *)
(***************************************************************************)
Unstopped == {i \in 1..Len(browser.streams) : browser.streams[i] = "live"}

\* C22: every stream openCamera obtained has its tracks stopped by the time
\* the camera modal is closed: whenever the modal is not shown, no stream
\* is live
C22_NoLiveStreamBehindClosedModal ==
    ~page.cameraModal => Unstopped = {}

\* one system message with this text is appended by the step and nothing
\* else is written to the transcript
OneSystemMessage(text) ==
    page'.chatMessages = Append(page.chatMessages, [sender |-> "system", text |-> text])

\* the step starts no acquisition: no new getUserMedia call, no new start()
NoRetry ==
    /\ browser'.getUserMedia <= browser.getUserMedia
    /\ browser'.recognition = "starting" => browser.recognition = "starting"

CameraDenied ==
    /\ OneSystemMessage("Camera access denied. Please enable camera permissions for document scanning.")
    /\ NoRetry
    /\ AuraState'.cameraStream = NoStream
    /\ ~page'.cameraModal

MicrophoneDenied ==
    /\ OneSystemMessage("Microphone access denied. Please enable microphone permissions and try again.")
    /\ NoRetry
    /\ ~AuraState'.isListening

\* C23: a denied camera request appends one system message asking for the
\* permission, starts no new acquisition, and leaves cameraStream null and
\* the camera modal hidden; a denied microphone does the same for its
\* message, and after any recognition error isListening is false
C23_DeniedAccessIsReportedOnce ==
    [][/\ getUserMediaRejects => CameraDenied
       /\ onerror("not-allowed") => MicrophoneDenied
       /\ (\E error \in RecognitionErrors : onerror(error)) => ~AuraState'.isListening]_vars

\* the fetches of processMessage and processDocumentScan not yet settled
InFlight == browser.messages + browser.scans + Len(browser.texts)

\* C33: the loading indicator is shown exactly while a processMessage or a
\* processDocumentScan request is in flight, however the requests overlap
C33_LoadingWhileInFlight ==
    page.loadingIndicator <=> InFlight > 0

\* the intervals still firing
Running == {i \in 1..Len(browser.intervals) : browser.intervals[i] = "running"}

\* C31: at most one countdown interval is running, and an interval is
\* running exactly when timerActive is true and timerInterval refers to
\* it, so that stopTimer can clear every interval that still fires
C31_OneCountdownInterval ==
    Running = IF AuraState.timerActive THEN {AuraState.timerInterval} ELSE {}

\* C32: AuraState.currentMode is 'normal', 'dual' or 'multi' in every
\* reachable state, whatever mode buttons are clicked and whatever replies
\* handleSpecialResponse handles
C32_CurrentModeIsNamed ==
    AuraState.currentMode \in DOMAIN modeNames

\* the step is a firing of the countdown that ran handleTimerComplete
Completion ==
    /\ \E i \in 1..MaxIntervals : intervalFires(i)
    /\ AuraState'.timeLeft <= 0

\* C34: completions of the local countdown alternate: a completion that
\* finds alarmCount at 0 sets it to 1 and does not activate the clone
\* display, the next one activates the clone display and sets it back to
\* 0, and every completion leaves timerActive false and no interval running
C34_CompletionsAlternate ==
    [][Completion =>
          /\ AuraState'.alarmCount \in {0, 1}
          /\ AuraState.alarmCount = 0 =>
                 /\ AuraState'.alarmCount = 1
                 /\ AuraState'.cloneActive = AuraState.cloneActive
          /\ AuraState.alarmCount = 1 =>
                 /\ AuraState'.alarmCount = 0
                 /\ AuraState'.cloneActive
          /\ ~AuraState'.timerActive
          /\ Running' = {}]_vars

====
